---- MODULE Spec2Model ----
(***************************************************************************)
(* A model of the calendar booking agent: the intent classifier, the       *)
(* detail extractor, the availability and booking engines and the session  *)
(* store of src/backend/agent.py and src/backend/calendar_service.py.      *)
(*                                                                         *)
(* A Python str is modelled by the tuple of its characters (one-character  *)
(* strings), so that substring tests, split('"'), strip(), the regular     *)
(* expressions and json.loads are computed on the text itself.  A          *)
(* character outside ASCII (the arrows of the prompts) is written "?", and *)
(* the backquote, which a TLA+ string cannot hold, is written "BQ".        *)
(* A datetime is the number of minutes since 00:00 of day 0; day 0 is a    *)
(* Monday.                                                                 *)
(***************************************************************************)
EXTENDS Integers, Sequences, FiniteSets, TLC

VARIABLES
    clock,          \* datetime.now(), in minutes since 00:00 of day 0
    mock_mode,      \* GoogleCalendarService.mock_mode
    llm_available,  \* LLM_AVAILABLE and model
    sessions,       \* CalendarBookingAgent.sessions: session id -> session
    calendar,       \* the events held by the calendar provider (real mode)
    created,        \* every event create_event has returned success for
    reply,          \* what the last request returned (or the error it raised)
    query,          \* the last call of get_available_slots and its result
    probe,          \* one application of a text function to an input
    clients         \* the slots each API client holds from its latest chat reply

vars == <<clock, mock_mode, llm_available, sessions, calendar, created,
          reply, query, probe, clients>>

----------------------------------------------------------------------------
(* Bounds of the model *)

\* the number of times the clock advances
MaxTicks == 1
\* the number of chat messages processed over all sessions
MaxChats == 2
\* the number of events created over all sessions
MaxEvents == 2
\* the number of words of a probed message
MaxWords == 2

----------------------------------------------------------------------------
(* str: lower, in, find, split, strip, startswith, endswith *)

UpperCase == <<"A","B","C","D","E","F","G","H","I","J","K","L","M","N","O","P","Q","R","S","T","U","V","W","X","Y","Z">>
LowerCase == <<"a","b","c","d","e","f","g","h","i","j","k","l","m","n","o","p","q","r","s","t","u","v","w","x","y","z">>
UpperSet == {UpperCase[i] : i \in 1..26}
DigitChars == <<"0","1","2","3","4","5","6","7","8","9">>
DigitSet == {DigitChars[i] : i \in 1..10}
\* what \s matches and what strip() removes
Whitespace == {" ", "\n", "\t"}

LowerChar(c) ==
    IF c \in UpperSet THEN LowerCase[CHOOSE i \in 1..26 : UpperCase[i] = c] ELSE c

\* s.lower()
lower(s) == [i \in 1..Len(s) |-> LowerChar(s[i])]

\* s[i:].startswith(w), i counted from 1
MatchAt(s, i, w) ==
    /\ i >= 1
    /\ i + Len(w) - 1 <= Len(s)
    /\ \A j \in 1..Len(w) : s[i + j - 1] = w[j]

\* w in s
Contains(s, w) == \E i \in 1..(Len(s) - Len(w) + 1) : MatchAt(s, i, w)

\* s.find(w) + 1: the first place of w in s, 0 when there is none
Find(s, w) ==
    IF Contains(s, w)
    THEN CHOOSE i \in 1..(Len(s) - Len(w) + 1) :
            MatchAt(s, i, w) /\ \A k \in 1..(i - 1) : ~MatchAt(s, k, w)
    ELSE 0

\* any(word in s for word in words)
AnyIn(s, words) == \E w \in words : Contains(s, w)

\* s.split('"')[1], for an s that holds a double quote
SplitQuote1(s) ==
    LET q1 == Find(s, <<"\"">>)
        rest == SubSeq(s, q1 + 1, Len(s))
        q2 == Find(rest, <<"\"">>)
    IN  IF q2 = 0 THEN rest ELSE SubSeq(rest, 1, q2 - 1)

\* s.strip()
strip(s) ==
    LET keep == {i \in 1..Len(s) : s[i] \notin Whitespace}
    IN  IF keep = {} THEN << >>
        ELSE SubSeq(s, CHOOSE i \in keep : \A k \in keep : i <= k,
                       CHOOSE i \in keep : \A k \in keep : i >= k)

startswith(s, w) == MatchAt(s, 1, w)
endswith(s, w) == Len(w) <= Len(s) /\ MatchAt(s, Len(s) - Len(w) + 1, w)

----------------------------------------------------------------------------
(* JSON values and Python dicts *)

\* The keys of an extracted-info record.
Keys == {"has_time_info", "day", "time", "type", "duration"}
KeyOrder == <<"has_time_info", "day", "time", "type", "duration">>
KeyText ==
    [has_time_info |-> <<"h","a","s","_","t","i","m","e","_","i","n","f","o">>, day |-> <<"d","a","y">>, time |-> <<"t","i","m","e">>,
     type |-> <<"t","y","p","e">>, duration |-> <<"d","u","r","a","t","i","o","n">>]

\* A value of a dict: a str, None, True, False, an int, or no entry (absent).
JStr(s) == [t |-> "str", s |-> s]
JNum(s) == [t |-> "num", s |-> s]
JNull == [t |-> "null", s |-> << >>]
JTrue == [t |-> "true", s |-> << >>]
JFalse == [t |-> "false", s |-> << >>]
JAbsent == [t |-> "absent", s |-> << >>]

\* {}
EmptyDict == [k \in Keys |-> JAbsent]

\* d.get(k, default)
Get(d, k, default) == IF d[k].t = "absent" THEN default ELSE d[k]

\* bool(v)
Truthy(v) ==
    \/ v.t = "true"
    \/ v.t = "str" /\ v.s # << >>
    \/ v.t = "num" /\ \E i \in 1..Len(v.s) : v.s[i] \notin {"0", "-"}

\* What a json.loads (or _regex_extract) call hands back: a dict, or a value
\* that is no dict (a list, a str, a number, true, false, null).
PyDict(d) == [kind |-> "dict", dict |-> d]
PyOther == [kind |-> "other", dict |-> EmptyDict]

\* json.dumps of a dict whose values are str, True or False
DumpValue(v) ==
    IF v.t = "str" THEN <<"\"">> \o v.s \o <<"\"">>
    ELSE IF v.t = "true" THEN <<"t","r","u","e">> ELSE <<"f","a","l","s","e">>

RECURSIVE DumpMembers(_, _, _)
DumpMembers(d, i, first) ==
    IF i > Len(KeyOrder) THEN << >>
    ELSE IF d[KeyOrder[i]].t = "absent" THEN DumpMembers(d, i + 1, first)
    ELSE (IF first THEN << >> ELSE <<","," ">>)
         \o <<"\"">> \o KeyText[KeyOrder[i]] \o <<"\"",":"," ">> \o DumpValue(d[KeyOrder[i]])
         \o DumpMembers(d, i + 1, FALSE)

json_dumps(d) == <<"{">> \o DumpMembers(d, 1, TRUE) \o <<"}">>

\* json.loads, for the JSON texts whose values are not nested: an object of
\* scalar members, an array of scalars, or one scalar; strings hold no escape.
RECURSIVE SkipWs(_, _)
SkipWs(s, i) ==
    IF i <= Len(s) /\ s[i] \in Whitespace THEN SkipWs(s, i + 1) ELSE i

RECURSIVE DigitRun(_, _)
DigitRun(s, i) ==
    IF i <= Len(s) /\ s[i] \in DigitSet THEN 1 + DigitRun(s, i + 1) ELSE 0

ParseFail == [ok |-> FALSE, val |-> JAbsent, next |-> 0]

ParseScalar(s, i) ==
    IF i > Len(s) THEN ParseFail
    ELSE IF s[i] = "\""
    THEN LET q == Find(SubSeq(s, i + 1, Len(s)), <<"\"">>)
         IN  IF q = 0 \/ Contains(SubSeq(s, i + 1, i + q - 1), <<"\\">>)
             THEN ParseFail
             ELSE [ok |-> TRUE, val |-> JStr(SubSeq(s, i + 1, i + q - 1)), next |-> i + q + 1]
    ELSE IF MatchAt(s, i, <<"t","r","u","e">>) THEN [ok |-> TRUE, val |-> JTrue, next |-> i + 4]
    ELSE IF MatchAt(s, i, <<"f","a","l","s","e">>) THEN [ok |-> TRUE, val |-> JFalse, next |-> i + 5]
    ELSE IF MatchAt(s, i, <<"n","u","l","l">>) THEN [ok |-> TRUE, val |-> JNull, next |-> i + 4]
    ELSE IF DigitRun(s, i) > 0
    THEN [ok |-> TRUE, val |-> JNum(SubSeq(s, i, i + DigitRun(s, i) - 1)),
          next |-> i + DigitRun(s, i)]
    ELSE ParseFail

ObjectFail == [ok |-> FALSE, dict |-> EmptyDict, next |-> 0]

\* the members of an object from place i on: "key": scalar (, "key": scalar)* }
RECURSIVE ParseMembers(_, _, _)
ParseMembers(s, i, d) ==
    LET key == ParseScalar(s, i)
        colon == SkipWs(s, key.next)
        val == ParseScalar(s, SkipWs(s, colon + 1))
        after == SkipWs(s, val.next)
        field == {k \in Keys : KeyText[k] = key.val.s}
        d2 == [k \in Keys |-> IF k \in field THEN val.val ELSE d[k]]
    IN  IF ~key.ok \/ key.val.t # "str" THEN ObjectFail
        ELSE IF colon > Len(s) \/ s[colon] # ":" THEN ObjectFail
        ELSE IF ~val.ok \/ after > Len(s) THEN ObjectFail
        ELSE IF s[after] = "}" THEN [ok |-> TRUE, dict |-> d2, next |-> after + 1]
        ELSE IF s[after] = "," THEN ParseMembers(s, SkipWs(s, after + 1), d2)
        ELSE ObjectFail

\* the elements of an array from place i on: scalar (, scalar)* ]
RECURSIVE ParseElements(_, _)
ParseElements(s, i) ==
    LET val == ParseScalar(s, i)
        after == SkipWs(s, val.next)
    IN  IF ~val.ok \/ after > Len(s) THEN ObjectFail
        ELSE IF s[after] = "]" THEN [ok |-> TRUE, dict |-> EmptyDict, next |-> after + 1]
        ELSE IF s[after] = "," THEN ParseElements(s, SkipWs(s, after + 1))
        ELSE ObjectFail

\* json.loads(s): [ok |-> FALSE] stands for the JSONDecodeError it raises.
json_loads(s) ==
    LET i == SkipWs(s, 1)
        open == SkipWs(s, i + 1)
        body == IF i > Len(s) THEN ObjectFail
                ELSE IF s[i] = "{"
                THEN IF open <= Len(s) /\ s[open] = "}"
                     THEN [ok |-> TRUE, dict |-> EmptyDict, next |-> open + 1]
                     ELSE ParseMembers(s, open, EmptyDict)
                ELSE IF s[i] = "["
                THEN IF open <= Len(s) /\ s[open] = "]"
                     THEN [ok |-> TRUE, dict |-> EmptyDict, next |-> open + 1]
                     ELSE ParseElements(s, open)
                ELSE LET v == ParseScalar(s, i)
                     IN  [ok |-> v.ok, dict |-> EmptyDict, next |-> v.next]
    IN  IF ~body.ok \/ SkipWs(s, body.next) <= Len(s)
        THEN [ok |-> FALSE, value |-> PyOther]
        ELSE [ok |-> TRUE,
              value |-> IF s[i] = "{" THEN PyDict(body.dict) ELSE PyOther]

----------------------------------------------------------------------------
(* The NLU adapter: _call_llm and its keyword fallback *)

\* The text of each prompt before and after the user's message.
IntentPromptHead ==
    <<"Y","o","u"," ","a","r","e"," ","a"," ","s","m","a","r","t"," ","c","a","l","e","n","d","a",
      "r"," ","b","o","o","k","i","n","g"," ","a","s","s","i","s","t","a","n","t","."," ","A",
      "n","a","l","y","z","e"," ","t","h","i","s"," ","u","s","e","r"," ","m","e","s","s","a",
      "g","e"," ","a","n","d"," ","d","e","t","e","r","m","i","n","e"," ","t","h","e","i","r",
      " ","i","n","t","e","n","t",".","\n","\n","U","s","e","r"," ","m","e","s","s","a","g","e",
      ":"," ","\"">>
IntentPromptTail ==
    <<"\"","\n","\n","I","n","t","e","n","t"," ","c","a","t","e","g","o","r","i","e","s",":","\n",
      "-"," ","b","o","o","k","_","a","p","p","o","i","n","t","m","e","n","t",":"," ","U","s",
      "e","r"," ","w","a","n","t","s"," ","t","o"," ","s","c","h","e","d","u","l","e","/","b",
      "o","o","k"," ","a"," ","m","e","e","t","i","n","g",","," ","c","a","l","l",","," ","a",
      "p","p","o","i","n","t","m","e","n","t",","," ","o","r"," ","e","v","e","n","t","\n","-",
      " ","c","h","e","c","k","_","a","v","a","i","l","a","b","i","l","i","t","y",":"," ","U",
      "s","e","r"," ","i","s"," ","a","s","k","i","n","g"," ","a","b","o","u","t"," ","f","r",
      "e","e"," ","t","i","m","e",","," ","a","v","a","i","l","a","b","i","l","i","t","y",",",
      " ","o","r"," ","w","h","e","n"," ","t","h","e","y","'","r","e"," ","f","r","e","e","\n",
      "-"," ","g","e","n","e","r","a","l","_","c","o","n","v","e","r","s","a","t","i","o","n",
      ":"," ","G","r","e","e","t","i","n","g","s",","," ","q","u","e","s","t","i","o","n","s",
      ","," ","o","r"," ","u","n","c","l","e","a","r"," ","r","e","q","u","e","s","t","s","\n",
      "\n","E","x","a","m","p","l","e","s",":","\n","-"," ","\"","I"," ","w","a","n","t"," ",
      "t","o"," ","s","c","h","e","d","u","l","e"," ","a"," ","c","a","l","l","\""," ","?"," ",
      "b","o","o","k","_","a","p","p","o","i","n","t","m","e","n","t","\n","-"," ","\"","B","o",
      "o","k"," ","a"," ","m","e","e","t","i","n","g"," ","f","o","r"," ","t","o","m","o","r",
      "r","o","w","\""," ","?"," ","b","o","o","k","_","a","p","p","o","i","n","t","m","e","n",
      "t","\n","-"," ","\"","D","o"," ","y","o","u"," ","h","a","v","e"," ","a","n","y"," ","f",
      "r","e","e"," ","t","i","m","e","?","\""," ","?"," ","c","h","e","c","k","_","a","v","a",
      "i","l","a","b","i","l","i","t","y","\n","-"," ","\"","W","h","e","n"," ","a","m"," ","I",
      " ","a","v","a","i","l","a","b","l","e","?","\""," ","?"," ","c","h","e","c","k","_","a",
      "v","a","i","l","a","b","i","l","i","t","y","\n","-"," ","\"","H","i"," ","t","h","e","r",
      "e","\""," ","?"," ","g","e","n","e","r","a","l","_","c","o","n","v","e","r","s","a","t",
      "i","o","n","\n","\n","R","e","s","p","o","n","d"," ","w","i","t","h"," ","O","N","L","Y",
      " ","t","h","e"," ","i","n","t","e","n","t"," ","n","a","m","e"," ","(","b","o","o","k",
      "_","a","p","p","o","i","n","t","m","e","n","t",","," ","c","h","e","c","k","_","a","v",
      "a","i","l","a","b","i","l","i","t","y",","," ","o","r"," ","g","e","n","e","r","a","l",
      "_","c","o","n","v","e","r","s","a","t","i","o","n",")",".">>
ExtractPromptHead ==
    <<"Y","o","u"," ","a","r","e"," ","a"," ","s","m","a","r","t"," ","c","a","l","e","n","d","a",
      "r"," ","a","s","s","i","s","t","a","n","t","."," ","E","x","t","r","a","c","t"," ","b",
      "o","o","k","i","n","g"," ","d","e","t","a","i","l","s"," ","f","r","o","m"," ","t","h",
      "i","s"," ","m","e","s","s","a","g","e",".","\n","\n","U","s","e","r"," ","m","e","s","s",
      "a","g","e",":"," ","\"">>
ExtractPromptTail ==
    <<"\"","\n","\n","E","x","t","r","a","c","t"," ","t","h","e","s","e"," ","d","e","t","a","i",
      "l","s",":","\n","-"," ","d","a","y",":"," ","T","h","e"," ","d","a","y"," ","m","e","n",
      "t","i","o","n","e","d"," ","(","t","o","d","a","y",","," ","t","o","m","o","r","r","o",
      "w",","," ","M","o","n","d","a","y",","," ","F","r","i","d","a","y",","," ","n","e","x",
      "t"," ","w","e","e","k",","," ","e","t","c",".",")","\n","-"," ","t","i","m","e",":"," ",
      "S","p","e","c","i","f","i","c"," ","t","i","m","e"," ","o","r"," ","t","i","m","e"," ",
      "p","e","r","i","o","d"," ","(","2"," ","P","M",","," ","a","f","t","e","r","n","o","o",
      "n",","," ","m","o","r","n","i","n","g",","," ","3","-","5"," ","P","M",","," ","e","t",
      "c",".",")","\n","-"," ","t","y","p","e",":"," ","T","y","p","e"," ","o","f"," ","m","e",
      "e","t","i","n","g"," ","(","c","a","l","l",","," ","m","e","e","t","i","n","g",","," ",
      "a","p","p","o","i","n","t","m","e","n","t",","," ","i","n","t","e","r","v","i","e","w",
      ","," ","e","t","c",".",")","\n","-"," ","d","u","r","a","t","i","o","n",":"," ","H","o",
      "w"," ","l","o","n","g"," ","(","1"," ","h","o","u","r",","," ","3","0"," ","m","i","n",
      "u","t","e","s",","," ","e","t","c",".",")","\n","\n","R","e","t","u","r","n"," ","a"," ",
      "J","S","O","N"," ","o","b","j","e","c","t"," ","w","i","t","h"," ","t","h","e"," ","e",
      "x","t","r","a","c","t","e","d"," ","i","n","f","o","r","m","a","t","i","o","n","."," ",
      "I","f"," ","t","h","e"," ","m","e","s","s","a","g","e"," ","c","o","n","t","a","i","n",
      "s"," ","t","i","m","e","/","s","c","h","e","d","u","l","i","n","g"," ","i","n","f","o",
      "r","m","a","t","i","o","n",","," ","s","e","t"," ","\"","h","a","s","_","t","i","m","e",
      "_","i","n","f","o","\"",":"," ","t","r","u","e",".","\n","\n","E","x","a","m","p","l",
      "e","s",":","\n","\"","S","c","h","e","d","u","l","e"," ","a"," ","c","a","l","l"," ","f",
      "o","r"," ","t","o","m","o","r","r","o","w"," ","a","f","t","e","r","n","o","o","n","\"",
      " ","?"," ","{","\"","h","a","s","_","t","i","m","e","_","i","n","f","o","\"",":"," ","t",
      "r","u","e",","," ","\"","d","a","y","\"",":"," ","\"","t","o","m","o","r","r","o","w",
      "\"",","," ","\"","t","i","m","e","\"",":"," ","\"","a","f","t","e","r","n","o","o","n",
      "\"",","," ","\"","t","y","p","e","\"",":"," ","\"","c","a","l","l","\"","}","\n","\"",
      "M","e","e","t","i","n","g"," ","a","t"," ","2"," ","P","M"," ","F","r","i","d","a","y",
      "\""," ","?"," ","{","\"","h","a","s","_","t","i","m","e","_","i","n","f","o","\"",":",
      " ","t","r","u","e",","," ","\"","d","a","y","\"",":"," ","\"","F","r","i","d","a","y",
      "\"",","," ","\"","t","i","m","e","\"",":"," ","\"","2"," ","P","M","\"",","," ","\"","t",
      "y","p","e","\"",":"," ","\"","m","e","e","t","i","n","g","\"","}","\n","\"","J","u","s",
      "t"," ","s","a","y","i","n","g"," ","h","i","\""," ","?"," ","{","\"","h","a","s","_","t",
      "i","m","e","_","i","n","f","o","\"",":"," ","f","a","l","s","e","}","\n","\n","R","e",
      "t","u","r","n"," ","O","N","L","Y"," ","v","a","l","i","d"," ","J","S","O","N",":">>
ConversationPromptHead ==
    <<"Y","o","u"," ","a","r","e"," ","a"," ","h","e","l","p","f","u","l"," ","c","a","l","e","n",
      "d","a","r"," ","b","o","o","k","i","n","g"," ","a","s","s","i","s","t","a","n","t",".",
      " ","T","h","e"," ","u","s","e","r"," ","s","a","i","d",":"," ","\"">>
ConversationPromptTail ==
    <<"\"","\n","\n","C","o","n","t","e","x","t",":"," ","T","h","i","s"," ","i","s"," ","a"," ",
      "c","a","l","e","n","d","a","r"," ","b","o","o","k","i","n","g"," ","c","o","n","v","e",
      "r","s","a","t","i","o","n","."," ","T","h","e"," ","u","s","e","r"," ","m","i","g","h",
      "t"," ","b","e",":","\n","-"," ","G","r","e","e","t","i","n","g"," ","y","o","u","\n","-",
      " ","A","s","k","i","n","g"," ","f","o","r"," ","h","e","l","p","\n","-"," ","A","s","k",
      "i","n","g"," ","a","b","o","u","t"," ","a","v","a","i","l","a","b","i","l","i","t","y",
      " ","w","i","t","h","o","u","t"," ","s","p","e","c","i","f","i","c"," ","t","i","m","e",
      "s","\n","-"," ","M","a","k","i","n","g"," ","u","n","c","l","e","a","r"," ","r","e","q",
      "u","e","s","t","s","\n","-"," ","A","s","k","i","n","g"," ","q","u","e","s","t","i","o",
      "n","s"," ","a","b","o","u","t"," ","t","h","e"," ","s","e","r","v","i","c","e","\n","\n",
      "R","e","s","p","o","n","d"," ","n","a","t","u","r","a","l","l","y"," ","a","n","d"," ",
      "h","e","l","p","f","u","l","l","y","."," ","K","e","e","p"," ","r","e","s","p","o","n",
      "s","e","s"," ","c","o","n","c","i","s","e"," ","(","1","-","2"," ","s","e","n","t","e",
      "n","c","e","s",")","."," ","A","l","w","a","y","s"," ","g","u","i","d","e"," ","t","h",
      "e","m"," ","t","o","w","a","r","d"," ","b","o","o","k","i","n","g"," ","i","f"," ","a",
      "p","p","r","o","p","r","i","a","t","e",".","\n","\n","E","x","a","m","p","l","e","s",":",
      "\n","-"," ","\"","H","i","\""," ","?"," ","\"","H","i","!"," ","I","'","m"," ","y","o",
      "u","r"," ","c","a","l","e","n","d","a","r"," ","a","s","s","i","s","t","a","n","t",".",
      " ","W","h","a","t"," ","w","o","u","l","d"," ","y","o","u"," ","l","i","k","e"," ","t",
      "o"," ","s","c","h","e","d","u","l","e"," ","t","o","d","a","y","?","\"","\n","-"," ",
      "\"","H","e","l","p","\""," ","?"," ","\"","I"," ","c","a","n"," ","h","e","l","p"," ",
      "y","o","u"," ","s","c","h","e","d","u","l","e"," ","m","e","e","t","i","n","g","s",",",
      " ","c","h","e","c","k"," ","a","v","a","i","l","a","b","i","l","i","t","y",","," ","a",
      "n","d"," ","b","o","o","k"," ","a","p","p","o","i","n","t","m","e","n","t","s","."," ",
      "W","h","a","t"," ","w","o","u","l","d"," ","y","o","u"," ","l","i","k","e"," ","t","o",
      " ","s","c","h","e","d","u","l","e","?","\"","\n","-"," ","\"","W","h","a","t"," ","c",
      "a","n"," ","y","o","u"," ","d","o","?","\""," ","?"," ","\"","I"," ","c","a","n"," ","s",
      "c","h","e","d","u","l","e"," ","m","e","e","t","i","n","g","s",","," ","c","h","e","c",
      "k"," ","y","o","u","r"," ","c","a","l","e","n","d","a","r"," ","a","v","a","i","l","a",
      "b","i","l","i","t","y",","," ","a","n","d"," ","b","o","o","k"," ","a","p","p","o","i",
      "n","t","m","e","n","t","s","."," ","J","u","s","t"," ","t","e","l","l"," ","m","e"," ",
      "w","h","e","n"," ","y","o","u","'","d"," ","l","i","k","e"," ","t","o"," ","m","e","e",
      "t","!","\"","\n","\n","R","e","s","p","o","n","d"," ","n","a","t","u","r","a","l","l",
      "y",":">>

DefaultFallback ==
    <<"I"," ","c","a","n"," ","h","e","l","p"," ","y","o","u"," ","s","c","h","e","d","u","l","e",
      " ","a","p","p","o","i","n","t","m","e","n","t","s","."," ","W","h","a","t"," ","w","o",
      "u","l","d"," ","y","o","u"," ","l","i","k","e"," ","t","o"," ","b","o","o","k","?">>

\* The outcomes of one call of the text-completion service: it is not
\* configured, it raises, or it answers with a text.
NluUnavailable == [kind |-> "unavailable", text |-> << >>]
NluRaises == [kind |-> "raises", text |-> << >>]
NluText(s) == [kind |-> "text", text |-> s]

\* the record the extraction fallback builds from the quoted message
FallbackExtract(user_msg) ==
    IF AnyIn(user_msg, {<<"t","o","m","o","r","r","o","w">>, <<"t","o","d","a","y">>, <<"m","o","n","d","a","y">>, <<"t","u","e","s","d","a","y">>, <<"w","e","d","n","e","s","d","a","y">>, <<"t","h","u","r","s","d","a","y">>,
                        <<"f","r","i","d","a","y">>, <<"s","a","t","u","r","d","a","y">>, <<"s","u","n","d","a","y">>, <<"n","e","x","t"," ","w","e","e","k">>, <<"p","m">>, <<"a","m">>,
                        <<"a","f","t","e","r","n","o","o","n">>, <<"m","o","r","n","i","n","g">>, <<"e","v","e","n","i","n","g">>})
    THEN [has_time_info |-> JTrue,
          day |-> IF Contains(user_msg, <<"t","o","m","o","r","r","o","w">>) THEN JStr(<<"t","o","m","o","r","r","o","w">>)
                  ELSE IF Contains(user_msg, <<"t","o","d","a","y">>) THEN JStr(<<"t","o","d","a","y">>)
                  ELSE IF Contains(user_msg, <<"f","r","i","d","a","y">>) THEN JStr(<<"F","r","i","d","a","y">>)
                  ELSE IF Contains(user_msg, <<"m","o","n","d","a","y">>) THEN JStr(<<"M","o","n","d","a","y">>)
                  ELSE IF Contains(user_msg, <<"n","e","x","t"," ","w","e","e","k">>) THEN JStr(<<"n","e","x","t"," ","w","e","e","k">>)
                  ELSE JAbsent,
          time |-> IF Contains(user_msg, <<"2"," ","p","m">>) \/ Contains(user_msg, <<"2","p","m">>) THEN JStr(<<"2"," ","P","M">>)
                   ELSE IF Contains(user_msg, <<"a","f","t","e","r","n","o","o","n">>) THEN JStr(<<"a","f","t","e","r","n","o","o","n">>)
                   ELSE IF Contains(user_msg, <<"m","o","r","n","i","n","g">>) THEN JStr(<<"m","o","r","n","i","n","g">>)
                   ELSE JAbsent,
          type |-> IF Contains(user_msg, <<"c","a","l","l">>) THEN JStr(<<"c","a","l","l">>)
                   ELSE IF Contains(user_msg, <<"m","e","e","t","i","n","g">>) THEN JStr(<<"m","e","e","t","i","n","g">>)
                   ELSE JStr(<<"a","p","p","o","i","n","t","m","e","n","t">>),
          duration |-> JAbsent]
    ELSE [EmptyDict EXCEPT !.has_time_info = JFalse]

\* the intent the keyword fallback reads from the quoted message
FallbackIntent(user_msg) ==
    IF AnyIn(user_msg, {<<"s","c","h","e","d","u","l","e">>, <<"b","o","o","k">>, <<"m","e","e","t","i","n","g">>, <<"c","a","l","l">>, <<"a","p","p","o","i","n","t","m","e","n","t">>})
    THEN <<"b","o","o","k","_","a","p","p","o","i","n","t","m","e","n","t">>
    ELSE IF AnyIn(user_msg, {<<"f","r","e","e">>, <<"a","v","a","i","l","a","b","l","e">>, <<"a","v","a","i","l","a","b","i","l","i","t","y">>, <<"t","i","m","e">>})
    THEN <<"c","h","e","c","k","_","a","v","a","i","l","a","b","i","l","i","t","y">>
    ELSE <<"g","e","n","e","r","a","l","_","c","o","n","v","e","r","s","a","t","i","o","n">>

FallbackConversation(user_msg) ==
    IF AnyIn(user_msg, {<<"h","i">>, <<"h","e","l","l","o">>, <<"h","e","y">>})
    THEN <<"H","i","!"," ","I","'","m"," ","y","o","u","r"," ","c","a","l","e","n","d","a","r"," ","a",
      "s","s","i","s","t","a","n","t","."," ","W","h","a","t"," ","w","o","u","l","d"," ","y",
      "o","u"," ","l","i","k","e"," ","t","o"," ","s","c","h","e","d","u","l","e"," ","t","o",
      "d","a","y","?">>
    ELSE IF AnyIn(user_msg, {<<"h","e","l","p">>, <<"w","h","a","t">>, <<"h","o","w">>})
    THEN <<"I"," ","c","a","n"," ","h","e","l","p"," ","y","o","u"," ","s","c","h","e","d","u","l","e",
      " ","m","e","e","t","i","n","g","s",","," ","c","h","e","c","k"," ","a","v","a","i","l",
      "a","b","i","l","i","t","y",","," ","a","n","d"," ","b","o","o","k"," ","a","p","p","o",
      "i","n","t","m","e","n","t","s","."," ","W","h","a","t"," ","w","o","u","l","d"," ","y",
      "o","u"," ","l","i","k","e"," ","t","o"," ","s","c","h","e","d","u","l","e","?">>
    ELSE <<"I","'","d"," ","b","e"," ","h","a","p","p","y"," ","t","o"," ","h","e","l","p"," ","y","o",
      "u"," ","s","c","h","e","d","u","l","e"," ","s","o","m","e","t","h","i","n","g","!"," ",
      "W","h","a","t"," ","w","o","u","l","d"," ","y","o","u"," ","l","i","k","e"," ","t","o",
      " ","b","o","o","k","?">>

_get_fallback_response(prompt) ==
    LET prompt_lower == lower(prompt)
        user_msg == lower(SplitQuote1(prompt))
    IN  IF Contains(prompt_lower, <<"i","n","t","e","n","t">>)
           /\ Contains(prompt_lower, <<"a","n","a","l","y","z","e"," ","t","h","i","s"," ","u","s","e","r"," ","m","e","s","s","a","g","e">>)
        THEN IF Contains(prompt, <<"\"">>) THEN FallbackIntent(user_msg)
             ELSE <<"b","o","o","k","_","a","p","p","o","i","n","t","m","e","n","t">>
        ELSE IF Contains(prompt_lower, <<"e","x","t","r","a","c","t"," ","b","o","o","k","i","n","g"," ","i","n","f","o","r","m","a","t","i","o","n">>)
        THEN IF Contains(prompt, <<"\"">>) THEN json_dumps(FallbackExtract(user_msg))
             ELSE <<"{","\"","h","a","s","_","t","i","m","e","_","i","n","f","o","\"",":"," ","f","a","l","s","e","}">>
        ELSE IF Contains(prompt_lower, <<"c","a","l","e","n","d","a","r"," ","b","o","o","k","i","n","g"," ","a","s","s","i","s","t","a","n","t">>)
        THEN IF Contains(prompt, <<"\"">>) THEN FallbackConversation(user_msg)
             ELSE DefaultFallback
        ELSE DefaultFallback

_call_llm(prompt, nlu) ==
    IF nlu.kind = "text" THEN strip(nlu.text) ELSE _get_fallback_response(prompt)

----------------------------------------------------------------------------
(* The intent classifier and the detail extractor *)

_understand_intent(message, nlu) ==
    lower(strip(_call_llm(IntentPromptHead \o message \o IntentPromptTail, nlu)))

\* re.search(r'(\d{1,2}):?(\d{0,2})\s*(am|pm)', s): a match at place i takes a
\* digits, c colons, b digits, the whitespace that follows, then am or pm.
WsRun(s, i) == SkipWs(s, i) - i

ClockMatchAt(s, i, a, c, b) ==
    LET p == i + a + c + b
        q == SkipWs(s, p)
    IN  /\ i + a - 1 <= Len(s)
        /\ \A k \in i..(i + a - 1) : s[k] \in DigitSet
        /\ c = 1 => (i + a <= Len(s) /\ s[i + a] = ":")
        /\ p - 1 <= Len(s)
        /\ \A k \in (i + a + c)..(p - 1) : s[k] \in DigitSet
        /\ (MatchAt(s, q, <<"a","m">>) \/ MatchAt(s, q, <<"p","m">>))

ClockShapes == {<<a, c, b>> : a \in {1, 2}, c \in {0, 1}, b \in {0, 1, 2}}

\* the backtracking order of the pattern: each part takes as much as it can
ShapeBefore(x, y) ==
    \/ x[1] > y[1]
    \/ x[1] = y[1] /\ x[2] > y[2]
    \/ x[1] = y[1] /\ x[2] = y[2] /\ x[3] >= y[3]

NoMatch == [found |-> FALSE, start |-> 0, group |-> << >>, hour |-> << >>,
            minute |-> << >>, ampm |-> << >>]

ClockSearch(s) ==
    LET hits == {i \in 1..Len(s) : \E sh \in ClockShapes : ClockMatchAt(s, i, sh[1], sh[2], sh[3])}
    IN  IF hits = {} THEN NoMatch
        ELSE LET i == CHOOSE h \in hits : \A k \in hits : h <= k
                 shapes == {sh \in ClockShapes : ClockMatchAt(s, i, sh[1], sh[2], sh[3])}
                 sh == CHOOSE x \in shapes : \A y \in shapes : ShapeBefore(x, y)
                 p == i + sh[1] + sh[2] + sh[3]
                 q == SkipWs(s, p)
             IN  [found |-> TRUE, start |-> i,
                  group |-> SubSeq(s, i, q + 1),
                  hour |-> SubSeq(s, i, i + sh[1] - 1),
                  minute |-> SubSeq(s, i + sh[1] + sh[2], p - 1),
                  ampm |-> SubSeq(s, q, q + 1)]

\* re.search(r'(w1|w2|...)', s): the leftmost place where an alternative
\* matches, and there the first alternative that does.
WordSearch(s, alts) ==
    LET hits == {i \in 1..Len(s) : \E n \in 1..Len(alts) : MatchAt(s, i, alts[n])}
    IN  IF hits = {} THEN NoMatch
        ELSE LET i == CHOOSE h \in hits : \A k \in hits : h <= k
                 n == CHOOSE m \in 1..Len(alts) :
                        MatchAt(s, i, alts[m]) /\ \A k \in 1..(m - 1) : ~MatchAt(s, i, alts[k])
             IN  [NoMatch EXCEPT !.found = TRUE, !.start = i, !.group = alts[n]]

\* re.search(r'next\s+(w1|w2|...)', s)
NextSearch(s, alts) ==
    LET hits == {i \in 1..Len(s) :
                    /\ MatchAt(s, i, <<"n","e","x","t">>)
                    /\ WsRun(s, i + 4) >= 1
                    /\ \E n \in 1..Len(alts) : MatchAt(s, SkipWs(s, i + 4), alts[n])}
    IN  IF hits = {} THEN NoMatch
        ELSE LET i == CHOOSE h \in hits : \A k \in hits : h <= k
                 q == SkipWs(s, i + 4)
                 n == CHOOSE m \in 1..Len(alts) :
                        MatchAt(s, q, alts[m]) /\ \A k \in 1..(m - 1) : ~MatchAt(s, q, alts[k])
             IN  [NoMatch EXCEPT !.found = TRUE, !.start = i,
                                 !.group = SubSeq(s, i, q + Len(alts[n]) - 1)]

DayParts == <<<<"m","o","r","n","i","n","g">>, <<"a","f","t","e","r","n","o","o","n">>, <<"e","v","e","n","i","n","g">>>>
NoonWords == <<<<"n","o","o","n">>, <<"m","i","d","n","i","g","h","t">>>>
RelativeDays == <<<<"t","o","d","a","y">>, <<"t","o","m","o","r","r","o","w">>>>
Weekdays == <<<<"m","o","n","d","a","y">>, <<"t","u","e","s","d","a","y">>, <<"w","e","d","n","e","s","d","a","y">>, <<"t","h","u","r","s","d","a","y">>, <<"f","r","i","d","a","y">>, <<"s","a","t","u","r","d","a","y">>, <<"s","u","n","d","a","y">>>>
NextWords == <<<<"w","e","e","k">>, <<"m","o","n","d","a","y">>, <<"t","u","e","s","d","a","y">>, <<"w","e","d","n","e","s","d","a","y">>, <<"t","h","u","r","s","d","a","y">>, <<"f","r","i","d","a","y">>>>

\* TimeMatch with the noon words tried before the parts of the day.
TimeMatchNoonFirst(s) ==
    IF ClockSearch(s).found THEN ClockSearch(s)
    ELSE IF WordSearch(s, NoonWords).found THEN WordSearch(s, NoonWords)
    ELSE WordSearch(s, DayParts)

\* the first of time_patterns that matches message.lower()
TimeMatch(s) ==
    IF ClockSearch(s).found THEN ClockSearch(s)
    ELSE IF WordSearch(s, DayParts).found THEN WordSearch(s, DayParts)
    ELSE WordSearch(s, NoonWords)

\* the first of day_patterns that matches message.lower()
DayMatch(s) ==
    IF WordSearch(s, RelativeDays).found THEN WordSearch(s, RelativeDays)
    ELSE IF WordSearch(s, Weekdays).found THEN WordSearch(s, Weekdays)
    ELSE NextSearch(s, NextWords)

_regex_extract(message) ==
    LET s == lower(message)
        tm == TimeMatch(s)
        dm == DayMatch(s)
    IN  [has_time_info |-> IF tm.found \/ dm.found THEN JTrue ELSE JFalse,
         time |-> IF tm.found THEN JStr(tm.group) ELSE JAbsent,
         day |-> IF dm.found THEN JStr(dm.group) ELSE JAbsent,
         type |-> IF Contains(s, <<"c","a","l","l">>) THEN JStr(<<"c","a","l","l">>)
                  ELSE IF Contains(s, <<"m","e","e","t","i","n","g">>) THEN JStr(<<"m","e","e","t","i","n","g">>)
                  ELSE IF Contains(s, <<"a","p","p","o","i","n","t","m","e","n","t">>) THEN JStr(<<"a","p","p","o","i","n","t","m","e","n","t">>)
                  ELSE JStr(<<"m","e","e","t","i","n","g">>),
         duration |-> JAbsent]

\* response[7:] after a leading ```json, response[:-3] before a trailing ```
StripFences(response) ==
    LET r1 == strip(response)
        r2 == IF startswith(r1, <<"BQ","BQ","BQ","j","s","o","n">>) THEN SubSeq(r1, 8, Len(r1)) ELSE r1
        r3 == IF endswith(r2, <<"BQ","BQ","BQ">>) THEN SubSeq(r2, 1, Len(r2) - 3) ELSE r2
    IN  strip(r3)

\* _extract_details without the regex extraction: a response that cannot be
\* parsed gives a record without time information.
_extract_details_no_regex(message, nlu) ==
    LET response == _call_llm(ExtractPromptHead \o message \o ExtractPromptTail, nlu)
        parsed == json_loads(StripFences(response))
    IN  IF parsed.ok THEN parsed.value ELSE PyDict([EmptyDict EXCEPT !["has_time_info"] = JFalse])

_extract_details(message, nlu) ==
    LET response == _call_llm(ExtractPromptHead \o message \o ExtractPromptTail, nlu)
        parsed == json_loads(StripFences(response))
    IN  IF parsed.ok THEN parsed.value ELSE PyDict(_regex_extract(message))

----------------------------------------------------------------------------
(* The inputs of the requests *)

\* available_slots[:3] in _check_availability
MaxOffered == 3

\* The chat messages sent: the ones of the repository's tests and
\* variations of them.
MsgScheduleCall == <<"I"," ","w","a","n","t"," ","t","o"," ","s","c","h","e","d","u","l","e"," ","a"," ","c","a",
      "l","l"," ","f","o","r"," ","t","o","m","o","r","r","o","w"," ","a","f","t","e","r","n",
      "o","o","n">>
MsgFreeToday == <<"D","o"," ","y","o","u"," ","h","a","v","e"," ","a","n","y"," ","f","r","e","e"," ","t","i","m","e"," ","t","o","d","a","y","?">>
MsgBookToday == <<"B","o","o","k"," ","a"," ","m","e","e","t","i","n","g"," ","t","o","d","a","y"," ","a","t"," ","9","a","m">>
MsgTwo == <<"2">>

\* questions about a weekday, asked on each day of a week
MsgFreeFriday == <<"D","o"," ","y","o","u"," ","h","a","v","e"," ","a","n","y"," ","f","r","e","e"," ","t","i","m","e"," ","t","h","i","s"," ","F","r","i","d","a","y","?">>
MsgFreeMonday == <<"D","o"," ","y","o","u"," ","h","a","v","e"," ","a","n","y"," ","f","r","e","e"," ","t","i","m","e"," ","o","n"," ","M","o","n","d","a","y","?">>
WeekMessages == {MsgFreeFriday, MsgFreeMonday, MsgFreeToday}

Messages == {MsgScheduleCall, MsgFreeToday, MsgBookToday, MsgTwo}
SessionIds == {"default", "booking_test"}
\* the slot_index values of confirm_booking: below, inside and beyond a list
SlotIndexes == {-1, 0, 1, MaxOffered}

\* Answers of the text-completion service to the intent prompt ...
IntentTexts == {<<"I","n","t","e","n","t",":"," ","b","o","o","k","_","a","p","p","o","i","n","t","m","e","n","t">>, <<"c","h","e","c","k","_","a","v","a","i","l","a","b","i","l","i","t","y">>}
\* ... and to the extraction and conversation prompts.
JsonArray == <<"[","\"","t","o","m","o","r","r","o","w","\"","]">>
JsonNullDay == <<"BQ","BQ","BQ","j","s","o","n","\n","{","\"","h","a","s","_","t","i","m","e","_","i","n","f",
      "o","\"",":"," ","t","r","u","e",","," ","\"","d","a","y","\"",":"," ","n","u","l","l",
      ","," ","\"","t","i","m","e","\"",":"," ","\"","1","0"," ","a","m","\"",","," ","\"","t",
      "y","p","e","\"",":"," ","\"","c","a","l","l","\"","}","\n","BQ","BQ","BQ">>
JsonNullType == <<"{","\"","h","a","s","_","t","i","m","e","_","i","n","f","o","\"",":"," ","t","r","u","e",",",
      " ","\"","d","a","y","\"",":"," ","\"","t","o","d","a","y","\"",","," ","\"","t","i","m",
      "e","\"",":"," ","\"","9","a","m","\"",","," ","\"","t","y","p","e","\"",":"," ","n","u",
      "l","l","}">>
JsonGood == <<"BQ","BQ","BQ","j","s","o","n","\n","{","\"","h","a","s","_","t","i","m","e","_","i","n","f",
      "o","\"",":"," ","t","r","u","e",","," ","\"","d","a","y","\"",":"," ","\"","t","o","m",
      "o","r","r","o","w","\"",","," ","\"","t","i","m","e","\"",":"," ","\"","1","0"," ","a",
      "m","\"",","," ","\"","t","y","p","e","\"",":"," ","\"","c","a","l","l","\"","}","\n",
      "BQ","BQ","BQ">>
Chatter == <<"S","u","r","e",","," ","I"," ","c","a","n"," ","h","e","l","p"," ","w","i","t","h"," ","t","h","a","t","!">>
SecondTexts == {JsonArray, JsonNullDay, JsonNullType, JsonGood, Chatter}
NluMessages == {MsgScheduleCall, MsgTwo}

\* The calls of the text-completion service the requests make: a message
\* with the outcome of the call.
NluCalls ==
    ((Messages \cup WeekMessages) \X {NluUnavailable})
    \cup (NluMessages \X ({NluRaises} \cup {NluText(t) : t \in IntentTexts \cup SecondTexts}))

\* _understand_intent, _extract_details and the text-completion call of
\* _handle_conversation, tabulated once over these calls.
IntentTable ==
    {[message |-> c[1], nlu |-> c[2], value |-> _understand_intent(c[1], c[2])] : c \in NluCalls}
DetailsTable ==
    {[message |-> c[1], nlu |-> c[2], value |-> _extract_details(c[1], c[2])] : c \in NluCalls}
ConversationTable ==
    {[message |-> c[1], nlu |-> c[2],
      value |-> strip(_call_llm(ConversationPromptHead \o c[1] \o ConversationPromptTail, c[2]))]
        : c \in NluCalls}
Lookup(table, message, nlu) ==
    (CHOOSE row \in table : row.message = message /\ row.nlu = nlu).value

----------------------------------------------------------------------------
(* datetime *)

MinutesPerDay == 24 * 60
\* the clock when the process starts: 09:00 of day 0
StartClock == 9 * 60
\* how far the clock advances in one step
TickMinutes == 12 * 60

DayOf(t) == t \div MinutesPerDay
HourOf(t) == (t % MinutesPerDay) \div 60
MinuteOf(t) == t % 60

\* t.replace(hour=hour, minute=minute, second=0, microsecond=0); a ValueError
\* unless ValidTime(hour, minute)
ValidTime(hour, minute) == hour \in 0..23 /\ minute \in 0..59
replace(t, hour, minute) == DayOf(t) * MinutesPerDay + hour * 60 + minute

\* t.weekday(): 0 is Monday
weekday(t) == DayOf(t) % 7

\* t.isoformat() names the date, the hour and the minute of t, and
\* datetime.fromisoformat reads them back.
isoformat(t) == [date |-> DayOf(t), hour |-> HourOf(t), minute |-> MinuteOf(t)]
fromisoformat(iso) == iso.date * MinutesPerDay + iso.hour * 60 + iso.minute

TwoDigits(n) == <<DigitChars[(n \div 10) + 1], DigitChars[(n % 10) + 1]>>

\* t.strftime('%I:%M %p')
strftime_time(t) ==
    TwoDigits(IF HourOf(t) % 12 = 0 THEN 12 ELSE HourOf(t) % 12) \o <<":">>
    \o TwoDigits(MinuteOf(t)) \o (IF HourOf(t) < 12 THEN <<" ","A","M">> ELSE <<" ","P","M">>)

\* t.strftime('%B %d, %Y'), the date written as the number of its day
strftime_date(t) == <<"d","a","y"," ">> \o TwoDigits(DayOf(t))

\* int(s) for a text of one or two digits
DigitValue(c) == (CHOOSE i \in 1..10 : DigitChars[i] = c) - 1
int(s) == IF Len(s) = 1 THEN DigitValue(s[1]) ELSE 10 * DigitValue(s[1]) + DigitValue(s[2])

\* s.capitalize()
capitalize(s) ==
    [i \in 1..Len(s) |->
        IF i = 1 /\ \E k \in 1..26 : LowerCase[k] = s[1]
        THEN UpperCase[CHOOSE k \in 1..26 : LowerCase[k] = s[1]]
        ELSE IF i = 1 THEN s[1] ELSE LowerChar(s[i])]

\* s[:n]
Take(s, n) == SubSeq(s, 1, IF n < Len(s) THEN n ELSE Len(s))

----------------------------------------------------------------------------
(* GoogleCalendarService *)

\* working_hours = (9, 17)
WorkStart == 9
WorkEnd == 17
\* slot_times of the simulated backend
SlotTimes == <<9, 11, 14, 16>>
\* available_slots[:3] and available_slots[:5]
MaxMockSlots == 3
MaxRealSlots == 5
\* timedelta(minutes=30)
SlotStep == 30
\* duration_minutes=60
Duration == 60

\* An event of the provider's calendar.  A timed event carries an RFC 3339
\* dateTime with its UTC offset; an all-day event carries a date.
TimedEvent(start, end) == [start |-> start, end |-> end, all_day |-> FALSE]
AllDayEvent(day) ==
    [start |-> day * MinutesPerDay, end |-> (day + 1) * MinutesPerDay, all_day |-> TRUE]

ServiceSlot(start, duration) == [start_time |-> start, end_time |-> start + duration]

\* Upcoming with the comparison weakened: a slot starting now is kept.
UpcomingOrNow(slot_start, now) == slot_start >= now

\* if slot_start > datetime.now(): a slot in the past is skipped
Upcoming(slot_start, now) == slot_start > now

_get_mock_available_slots(date, duration_minutes, now) ==
    LET InFuture(hour) == hour < WorkEnd /\ Upcoming(replace(date, hour, 0), now)
        hours == SelectSeq(SlotTimes, InFuture)
    IN  Take([i \in 1..Len(hours) |-> ServiceSlot(replace(date, hours[i], 0), duration_minutes)],
             MaxMockSlots)

\* events().list(timeMin, timeMax, singleEvents=True, orderBy='startTime')
RECURSIVE OrderByStart(_)
OrderByStart(events) ==
    IF events = {} THEN << >>
    ELSE LET first == CHOOSE e \in events : \A f \in events :
                        \/ e.start < f.start
                        \/ e.start = f.start /\ e.all_day /\ ~f.all_day
                        \/ e.start = f.start /\ e.all_day = f.all_day /\ e.end <= f.end
         IN  <<first>> \o OrderByStart(events \ {first})

ListEvents(cal, timeMin, timeMax) ==
    OrderByStart({e \in cal : e.start < timeMax /\ e.end > timeMin})

\* The loop over events for one candidate slot: "busy" when an event
\* overlaps it, "free" when none does, "raise" when it reaches a timed event,
\* whose offset-aware start cannot be compared with the naive current_time
\* (TypeError).
RECURSIVE ConflictCheck(_, _, _, _)
ConflictCheck(events, i, current_time, slot_end) ==
    IF i > Len(events) THEN "free"
    ELSE IF ~events[i].all_day THEN "raise"
    ELSE IF current_time < events[i].end /\ slot_end > events[i].start THEN "busy"
    ELSE ConflictCheck(events, i + 1, current_time, slot_end)

\* the candidate starts: every 30 minutes while the slot ends by day_end
Candidates(day_start, day_end, duration_minutes) ==
    {c \in day_start..day_end :
        /\ (c - day_start) % SlotStep = 0
        /\ c + duration_minutes <= day_end}

RECURSIVE RealSlotsFrom(_, _, _, _, _)
RealSlotsFrom(current_time, day_end, duration_minutes, events, now) ==
    IF current_time + duration_minutes > day_end THEN << >>
    ELSE (IF /\ ConflictCheck(events, 1, current_time, current_time + duration_minutes) = "free"
             /\ current_time > now
          THEN <<ServiceSlot(current_time, duration_minutes)>> ELSE << >>)
         \o RealSlotsFrom(current_time + SlotStep, day_end, duration_minutes, events, now)

\* [raised |-> TRUE] when the call raises (the list request fails, or an
\* event cannot be compared)
_get_real_available_slots(date, duration_minutes, now, cal, api_fails) ==
    LET day_start == replace(date, WorkStart, 0)
        day_end == replace(date, WorkEnd, 0)
        events == ListEvents(cal, day_start, day_end)
        raised == api_fails
                  \/ \E c \in Candidates(day_start, day_end, duration_minutes) :
                        ConflictCheck(events, 1, c, c + duration_minutes) = "raise"
    IN  [raised |-> raised,
         slots |-> IF raised THEN << >>
                   ELSE Take(RealSlotsFrom(day_start, day_end, duration_minutes, events, now),
                             MaxRealSlots)]

\* get_available_slots without the simulated slots: a failure of the real
\* backend leaves no slot.
get_available_slots_no_fallback(date, duration_minutes, now, mock, cal, api_fails) ==
    IF mock THEN _get_mock_available_slots(date, duration_minutes, now)
    ELSE _get_real_available_slots(date, duration_minutes, now, cal, api_fails).slots

get_available_slots(date, duration_minutes, now, mock, cal, api_fails) ==
    IF mock THEN _get_mock_available_slots(date, duration_minutes, now)
    ELSE LET real == _get_real_available_slots(date, duration_minutes, now, cal, api_fails)
         IN  IF real.raised THEN _get_mock_available_slots(date, duration_minutes, now)
             ELSE real.slots

\* A piece of a reply: a literal of the source, or a text put into it.
Lit(s) == [lit |-> s, txt |-> << >>]
Txt(s) == [lit |-> "", txt |-> s]

\* create_event: the result, and whether the provider now holds the event
\* (stored).  The simulated event is returned in mock mode and whenever the
\* insert request fails.
create_event(title, start_time, end_time, mock, api_fails) ==
    [success |-> TRUE,
     stored |-> ~mock /\ ~api_fails,
     message |-> <<Lit(IF mock \/ api_fails THEN "? Mock event '" ELSE "? Event '"), Txt(title),
                   Lit("' created for "), Txt(strftime_date(start_time)), Lit(" at "),
                   Txt(strftime_time(start_time))>>]

----------------------------------------------------------------------------
(* CalendarBookingAgent *)

\* str(v) inside an f-string
Str(v) ==
    IF v.t \in {"str", "num"} THEN v.s
    ELSE IF v.t = "true" THEN <<"T","r","u","e">>
    ELSE IF v.t = "false" THEN <<"F","a","l","s","e">>
    ELSE <<"N","o","n","e">>

\* _parse_date with "if days_ahead < 0": on a Monday, monday is today.
_parse_date_same_day(day_str, now) ==
    IF Contains(lower(day_str), <<"t","o","d","a","y">>) THEN now
    ELSE IF Contains(lower(day_str), <<"t","o","m","o","r","r","o","w">>) THEN now + MinutesPerDay
    ELSE IF Contains(lower(day_str), <<"m","o","n","d","a","y">>)
    THEN LET days_ahead == 0 - weekday(now)
         IN  now + (IF days_ahead < 0 THEN days_ahead + 7 ELSE days_ahead) * MinutesPerDay
    ELSE now + MinutesPerDay

_parse_date(day_str, now) ==
    IF Contains(lower(day_str), <<"t","o","d","a","y">>) THEN now
    ELSE IF Contains(lower(day_str), <<"t","o","m","o","r","r","o","w">>) THEN now + MinutesPerDay
    ELSE IF Contains(lower(day_str), <<"m","o","n","d","a","y">>)
    THEN LET days_ahead == 0 - weekday(now)
         IN  now + (IF days_ahead <= 0 THEN days_ahead + 7 ELSE days_ahead) * MinutesPerDay
    ELSE now + MinutesPerDay

\* Offered without the cut: every slot found is offered.
OfferedAll(found) == found

\* available_slots[:3]: the slots offered of the ones found
Offered(found) == Take(found, MaxOffered)

\* a slot as the agent offers it
AgentSlot(slot) ==
    [start_time |-> isoformat(slot.start_time),
     end_time |-> isoformat(slot.end_time),
     display |-> strftime_time(slot.start_time),
     available |-> TRUE]

\* [raised |-> TRUE]: day_str.lower() raises AttributeError for a day that is
\* no str.  found is what get_available_slots returned.
_check_availability(extracted_info, now, mock, cal, api_fails) ==
    LET day == Get(extracted_info, "day", JStr(<<"t","o","m","o","r","r","o","w">>))
        target_date == _parse_date(day.s, now)
        found == get_available_slots(target_date, Duration, now, mock, cal, api_fails)
        offered == Offered(found)
    IN  IF day.t # "str"
        THEN [raised |-> TRUE, target_date |-> 0, found |-> << >>, slots |-> << >>]
        ELSE [raised |-> FALSE, target_date |-> target_date, found |-> found,
              slots |-> [i \in 1..Len(offered) |-> AgentSlot(offered[i])]]

\* the numbered lines "i. display\n" of a reply
RECURSIVE SlotLines(_, _)
SlotLines(slots, i) ==
    IF i > Len(slots) THEN << >>
    ELSE <<Txt(<<DigitChars[i + 1]>>), Lit(". "), Txt(slots[i].display), Lit("\n")>>
         \o SlotLines(slots, i + 1)

_suggest_slots(slots, extracted_info) ==
    IF slots # << >>
    THEN <<Lit("I found some available times for your "),
           Txt(Str(Get(extracted_info, "type", JStr(<<"m","e","e","t","i","n","g">>)))), Lit(":\n\n")>>
         \o SlotLines(slots, 1)
         \o <<Lit("\nWhich time works best for you? Just reply with the number.")>>
    ELSE <<Lit("I couldn't find any available times. Would you like to try a different day?")>>

\* re.search(r'\b[123]\b', message): the places of a 1, 2 or 3 that stands
\* between word boundaries
WordChars == UpperSet \cup {LowerCase[i] : i \in 1..26} \cup DigitSet \cup {"_"}
SlotNumberPlaces(message) ==
    {i \in 1..Len(message) :
        /\ message[i] \in {"1", "2", "3"}
        /\ i = 1 \/ message[i - 1] \notin WordChars
        /\ i = Len(message) \/ message[i + 1] \notin WordChars}

\* [selected |-> TRUE] when the reply says the chosen slot has been scheduled;
\* ai_response is the stripped text the conversation prompt was answered with
_handle_conversation(message, session_data, ai_response) ==
    LET places == SlotNumberPlaces(message)
        slot_num == DigitValue(message[CHOOSE i \in places : \A k \in places : i <= k])
        slots == session_data.available_slots
    IN  IF slots # << >> /\ places # {}
        THEN IF 0 <= slot_num - 1 /\ slot_num - 1 < Len(slots)
             THEN [selected |-> TRUE,
                   response |-> <<Lit("Perfect! You've selected "), Txt(slots[slot_num].display),
                                  Lit(". I'll book this time slot for you. The meeting has been scheduled!")>>]
             ELSE [selected |-> FALSE,
                   response |-> <<Lit("Please select 1, 2, or 3 for your preferred time.")>>]
        ELSE [selected |-> FALSE,
              response |->
                IF ai_response # << >> /\ Len(ai_response) >= 10 THEN <<Txt(ai_response)>>
                ELSE IF AnyIn(lower(message), {<<"h","i">>, <<"h","e","l","l","o">>, <<"h","e","y">>, <<"g","o","o","d"," ","m","o","r","n","i","n","g">>, <<"g","o","o","d"," ","a","f","t","e","r","n","o","o","n">>})
                THEN <<Lit("Hi! I'm your calendar assistant. What would you like to schedule today?")>>
                ELSE IF AnyIn(lower(message), {<<"h","e","l","p">>, <<"w","h","a","t">>, <<"h","o","w">>})
                THEN <<Lit("I can help you schedule meetings, check availability, and book appointments. What would you like to schedule?")>>
                ELSE <<Lit("I'd be happy to help you schedule something! Try saying 'I want to schedule a call for tomorrow afternoon' or 'Do you have any free time this Friday?'")>>]

\* re.search(r'(\d{1,2})\s*(am|pm)', s)
HourSearch(s) ==
    LET hits == {i \in 1..Len(s) : \E a \in {1, 2} : ClockMatchAt(s, i, a, 0, 0)}
    IN  IF hits = {} THEN NoMatch
        ELSE LET i == CHOOSE h \in hits : \A k \in hits : h <= k
                 a == IF ClockMatchAt(s, i, 2, 0, 0) THEN 2 ELSE 1
                 q == SkipWs(s, i + a)
             IN  [found |-> TRUE, start |-> i, group |-> SubSeq(s, i, q + 1),
                  hour |-> SubSeq(s, i, i + a - 1), minute |-> << >>,
                  ampm |-> SubSeq(s, q, q + 1)]

\* the 12-hour clock: pm adds 12 except to 12, 12 am is 0
From12Hour(hour, ampm) ==
    IF ampm = <<"p","m">> /\ hour # 12 THEN hour + 12
    ELSE IF ampm = <<"a","m">> /\ hour = 12 THEN 0
    ELSE hour

\* the hour and minute _direct_book_appointment reads from time_str
ParseTime(time_str) ==
    LET Has(w) == Contains(time_str, w)
        At(h) == [hour |-> h, minute |-> 0]
        m == ClockSearch(time_str)
        hm == HourSearch(time_str)
    IN  IF Has(<<"8","p","m">>) \/ Has(<<"8"," ","p","m">>) THEN At(20)
        ELSE IF Has(<<"8","a","m">>) \/ Has(<<"8"," ","a","m">>) THEN At(8)
        ELSE IF Has(<<"9","p","m">>) \/ Has(<<"9"," ","p","m">>) THEN At(21)
        ELSE IF Has(<<"9","a","m">>) \/ Has(<<"9"," ","a","m">>) THEN At(9)
        ELSE IF Has(<<"1","0","p","m">>) \/ Has(<<"1","0"," ","p","m">>) THEN At(22)
        ELSE IF Has(<<"1","0","a","m">>) \/ Has(<<"1","0"," ","a","m">>) THEN At(10)
        ELSE IF Has(<<"1","1","p","m">>) \/ Has(<<"1","1"," ","p","m">>) THEN At(23)
        ELSE IF Has(<<"1","1","a","m">>) \/ Has(<<"1","1"," ","a","m">>) THEN At(11)
        ELSE IF Has(<<"1","2","p","m">>) \/ Has(<<"1","2"," ","p","m">>) \/ Has(<<"n","o","o","n">>) THEN At(12)
        ELSE IF Has(<<"1","2","a","m">>) \/ Has(<<"1","2"," ","a","m">>) \/ Has(<<"m","i","d","n","i","g","h","t">>) THEN At(0)
        ELSE IF Has(<<"a","f","t","e","r","n","o","o","n">>) THEN At(14)
        ELSE IF Has(<<"m","o","r","n","i","n","g">>) THEN At(9)
        ELSE IF Has(<<"e","v","e","n","i","n","g">>) THEN At(18)
        ELSE IF m.found
        THEN [hour |-> From12Hour(int(m.hour), m.ampm),
              minute |-> IF m.minute # << >> THEN int(m.minute) ELSE 0]
        ELSE IF hm.found THEN At(From12Hour(int(hm.hour), hm.ampm))
        ELSE At(9)

\* what _direct_book_appointment returns, with what it did: outcome is
\* "booked", "past" (the past-time rejection), "failed" (create_event
\* reported no success) or "trouble" (the except branch); stored tells
\* whether the provider holds the event.
DirectResult(outcome, message, start_time, title, stored) ==
    [success |-> outcome = "booked", outcome |-> outcome, message |-> message,
     start_time |-> start_time, end_time |-> start_time + 60, title |-> title,
     stored |-> stored]

Trouble ==
    DirectResult("trouble",
        <<Lit("I had trouble booking that time. Let me show you some available slots instead.")>>,
        0, << >>, FALSE)

PastCheck(start_time, now) == start_time <= now

\* _direct_book_appointment from the creation of the event on
BookTitled(event_title, start_time, mock, api_fails) ==
    LET booking_result == create_event(event_title, start_time, start_time + 60, mock, api_fails)
    IN  IF booking_result.success
        THEN DirectResult("booked", booking_result.message, start_time, event_title,
                          booking_result.stored)
        ELSE DirectResult("failed",
                <<Lit("Failed to create calendar event. Please try again.")>>,
                start_time, event_title, FALSE)

\* _direct_book_appointment from the past-time check on
BookAt(start_time, meeting_type, now, mock, api_fails) ==
    IF PastCheck(start_time, now)
    THEN DirectResult("past",
            <<Lit("Sorry, "), Txt(strftime_time(start_time)),
              Lit(" is in the past. Please choose a future time.")>>,
            start_time, << >>, FALSE)
    ELSE IF meeting_type.t # "str" THEN Trouble
    ELSE BookTitled(capitalize(meeting_type.s) \o <<" ","-"," ">> \o strftime_time(start_time),
                    start_time, mock, api_fails)

\* _direct_book_appointment once the hour and minute are read
BookParsed(target_date, parsed, meeting_type, now, mock, api_fails) ==
    IF ~ValidTime(parsed.hour, parsed.minute) THEN Trouble
    ELSE BookAt(replace(target_date, parsed.hour, parsed.minute), meeting_type, now,
                mock, api_fails)

_direct_book_appointment(extracted_info, now, mock, api_fails) ==
    LET day == Get(extracted_info, "day", JStr(<<"t","o","m","o","r","r","o","w">>))
        time == Get(extracted_info, "time", JStr(<< >>))
        meeting_type == Get(extracted_info, "type", JStr(<<"M","e","e","t","i","n","g">>))
    IN  IF day.t # "str" \/ time.t # "str" THEN Trouble
        ELSE BookParsed(_parse_date(day.s, now), ParseTime(lower(time.s)), meeting_type,
                        now, mock, api_fails)
----------------------------------------------------------------------------
(* process_message and confirm_booking *)

\* NewSession with the confirmation flag set from the start.
NewSessionConfirmed(session_id) ==
    [messages |-> << >>, user_intent |-> << >>, extracted_info |-> EmptyDict,
     available_slots |-> << >>, booking_confirmed |-> TRUE, session_id |-> session_id]

NewSession(session_id) ==
    [messages |-> << >>, user_intent |-> << >>, extracted_info |-> EmptyDict,
     available_slots |-> << >>, booking_confirmed |-> FALSE, session_id |-> session_id]

Message(role, content) == [role |-> role, content |-> content]

\* What the branches of process_message leave: the reply text, the fields of
\* the session, the event created (events holds none or one), and what was
\* done on the way: the branch taken, the record _extract_details returned,
\* the outcome of _direct_book_appointment, the get_available_slots call made.
Outcome(branch, response, session_data, extracted, direct, avail, asked) ==
    [raised |-> FALSE, branch |-> branch, response |-> response,
     available_slots |-> session_data.available_slots,
     extracted_info |-> session_data.extracted_info,
     booking_confirmed |-> session_data.booking_confirmed,
     extracted |-> extracted, direct |-> direct, asked |-> asked, avail |-> avail]

NoExtract == [ran |-> FALSE, value |-> PyOther]
Extracted(value) == [ran |-> TRUE, value |-> value]
NoDirect == [ran |-> FALSE, result |-> Trouble]
Direct(result) == [ran |-> TRUE, result |-> result]
NoAvail == [raised |-> FALSE, target_date |-> 0, found |-> << >>, slots |-> << >>]

\* an exception leaves process_message: nothing after the user message is done
Raise(session_data, extracted, direct) ==
    [Outcome("raised", << >>, session_data, extracted, direct, NoAvail, FALSE)
        EXCEPT !.raised = TRUE]

\* the book_appointment branch once direct booking has failed
BookSuggest(session_data, extracted, direct, avail) ==
    IF avail.raised THEN Raise(session_data, Extracted(extracted), Direct(direct))
    ELSE Outcome("direct_failed",
            direct.message \o <<Lit("\n\n")>> \o _suggest_slots(avail.slots, extracted.dict),
            [session_data EXCEPT !.available_slots = avail.slots,
                                 !.extracted_info = extracted.dict],
            Extracted(extracted), Direct(direct), avail, TRUE)

\* SlotsAfterBooking leaving the slots offered before in place.
SlotsAfterBookingKept(slots) == slots

\* session_data["available_slots"] = [] once the appointment is booked directly
SlotsAfterBooking(slots) == << >>

\* the book_appointment branch once direct booking has been tried
BookTried(session_data, extracted, direct, now, mock, cal, api_fails) ==
    IF direct.success
    THEN Outcome("direct_booked", direct.message,
            [session_data EXCEPT !.booking_confirmed = TRUE,
                                 !.available_slots = SlotsAfterBooking(@)],
            Extracted(extracted), Direct(direct), NoAvail, FALSE)
    ELSE BookSuggest(session_data, extracted, direct,
                     _check_availability(extracted.dict, now, mock, cal, api_fails))

BookBranch(message, session_data, extracted, now, mock, cal, api_fails) ==
    IF extracted.kind # "dict" THEN Raise(session_data, Extracted(extracted), NoDirect)
    ELSE IF ~Truthy(Get(extracted.dict, "has_time_info", JNull))
    THEN Outcome("book_no_time",
            <<Lit("I'd love to help you schedule that! Could you tell me when you'd like to meet? For example: 'tomorrow at 2 PM' or 'Friday morning'.")>>,
            session_data, Extracted(extracted), NoDirect, NoAvail, FALSE)
    ELSE BookTried(session_data, extracted,
                   _direct_book_appointment(extracted.dict, now, mock, api_fails),
                   now, mock, cal, api_fails)

\* the check_availability branch once the slots are known
AvailabilityFound(session_data, extracted, avail) ==
    LET day == Str(Get(extracted.dict, "day", JStr(<<"t","h","a","t"," ","d","a","y">>)))
    IN  IF avail.raised THEN Raise(session_data, Extracted(extracted), NoDirect)
        ELSE Outcome("availability",
                IF avail.slots # << >>
                THEN <<Lit("Let me check your availability for "), Txt(day), Lit(":\n\n"),
                       Lit("Here are your free time slots:\n\n")>>
                     \o SlotLines(avail.slots, 1)
                     \o <<Lit("\nWould you like to book any of these times? Just reply with the number.")>>
                ELSE <<Lit("Sorry, you don't have any free time slots for "), Txt(day),
                       Lit(". Would you like to try a different day?")>>,
                [session_data EXCEPT !.available_slots = avail.slots,
                                     !.extracted_info = extracted.dict],
                Extracted(extracted), NoDirect, avail, TRUE)

AvailabilityBranch(message, session_data, extracted, now, mock, cal, api_fails) ==
    IF extracted.kind # "dict" THEN Raise(session_data, Extracted(extracted), NoDirect)
    ELSE IF ~Truthy(Get(extracted.dict, "has_time_info", JNull))
    THEN Outcome("availability_no_time",
            <<Lit("I can check your availability! Which day are you interested in? For example: 'tomorrow', 'Friday', or 'next week'.")>>,
            session_data, Extracted(extracted), NoDirect, NoAvail, FALSE)
    ELSE AvailabilityFound(session_data, extracted,
                           _check_availability(extracted.dict, now, mock, cal, api_fails))

\* ConversationBranch marking the session as booked when a slot number is
\* chosen, as the reply says.
ConversationBranchBooking(message, session_data, ai_response) ==
    LET said == _handle_conversation(message, session_data, ai_response)
    IN  Outcome(IF said.selected THEN "slot_selected" ELSE "conversation",
                said.response,
                [session_data EXCEPT !.booking_confirmed = @ \/ said.selected],
                NoExtract, NoDirect, NoAvail, FALSE)

ConversationBranch(message, session_data, ai_response) ==
    LET said == _handle_conversation(message, session_data, ai_response)
    IN  Outcome(IF said.selected THEN "slot_selected" ELSE "conversation",
                said.response, session_data, NoExtract, NoDirect, NoAvail, FALSE)

\* process_message after the user message is appended, up to the reply.
\* extracted is what _extract_details returns and ai_response what the
\* conversation prompt is answered with, each used in its branch only.
Dispatch(intent, message, session_data, extracted, ai_response, now, mock, cal, api_fails) ==
    IF Contains(intent, <<"b","o","o","k","_","a","p","p","o","i","n","t","m","e","n","t">>)
    THEN BookBranch(message, session_data, extracted, now, mock, cal, api_fails)
    ELSE IF Contains(intent, <<"c","h","e","c","k","_","a","v","a","i","l","a","b","i","l","i","t","y">>)
    THEN AvailabilityBranch(message, session_data, extracted, now, mock, cal, api_fails)
    ELSE ConversationBranch(message, session_data, ai_response)

\* An event create_event reported as created: its interval, the clock at
\* the time, the session and the operation it was created for.
Created(start, end, session_id, via, stored, api_fails) ==
    [start |-> start, end |-> end, at |-> clock, session |-> session_id,
     via |-> via, stored |-> stored, api_fails |-> api_fails]

NoReply ==
    [op |-> "none", raised |-> FALSE, session_id |-> "", message_in |-> << >>,
     slot_index |-> 0, branch |-> "none", response |-> << >>, available_slots |-> << >>,
     intent |-> << >>, extracted_info |-> EmptyDict, success |-> FALSE,
     message |-> << >>, booking_details |-> << >>, extracted |-> NoExtract,
     direct |-> NoDirect]

\* The last call of get_available_slots: the clock and the number of events
\* created when it was made, the date asked for, whether the request of the
\* calendar API failed, and the slots returned.
NoQuery ==
    [asked |-> FALSE, at |-> 0, events |-> 0, target_date |-> 0, api_fails |-> FALSE,
     found |-> << >>]

\* the outcomes of one call of the text-completion service
NluOutcomes(texts) ==
    IF llm_available THEN {NluRaises} \cup {NluText(t) : t \in texts}
    ELSE {NluUnavailable}

\* whether a request of the calendar API fails (there is none in mock mode)
ApiOutcomes == IF mock_mode THEN {FALSE} ELSE {FALSE, TRUE}

process_message(message, session_id, nlu_intent, nlu_second, api_fails) ==
    LET session0 == IF session_id \in DOMAIN sessions THEN sessions[session_id]
                    ELSE NewSession(session_id)
        session_data == [session0 EXCEPT !.messages = Append(@, Message("user", <<Txt(message)>>))]
    IN  \E intent \in {Lookup(IntentTable, message, nlu_intent)} :
        \E extracted \in {Lookup(DetailsTable, message, nlu_second)} :
        \E ai_response \in {Lookup(ConversationTable, message, nlu_second)} :
        \E out \in {Dispatch(intent, message, session_data, extracted, ai_response, clock,
                             mock_mode, calendar, api_fails)} :
        \E after \in {[session_data EXCEPT
                        !.available_slots = out.available_slots,
                        !.extracted_info = out.extracted_info,
                        !.booking_confirmed = out.booking_confirmed,
                        !.messages = IF out.raised THEN @
                                     ELSE Append(@, Message("assistant", out.response))]} :
        LET booked == out.direct.ran /\ out.direct.result.success IN
        /\ sessions' = [s \in DOMAIN sessions \cup {session_id} |->
                            IF s = session_id THEN after ELSE sessions[s]]
        /\ created' = IF booked
                      THEN Append(created, Created(out.direct.result.start_time,
                                                   out.direct.result.end_time, session_id,
                                                   "direct", out.direct.result.stored,
                                                   api_fails))
                      ELSE created
        /\ calendar' = IF booked /\ out.direct.result.stored
                       THEN calendar \cup {TimedEvent(out.direct.result.start_time,
                                                      out.direct.result.end_time)}
                       ELSE calendar
        /\ query' = IF out.asked
                    THEN [asked |-> TRUE, at |-> clock, events |-> Len(created),
                          target_date |-> out.avail.target_date,
                          api_fails |-> api_fails, found |-> out.avail.found]
                    ELSE query
        /\ reply' = [NoReply EXCEPT
                        !.op = "chat", !.raised = out.raised, !.session_id = session_id,
                        !.message_in = message, !.branch = out.branch,
                        !.response = out.response,
                        !.available_slots = after.available_slots,
                        !.intent = intent,
                        !.extracted_info = after.extracted_info,
                        !.extracted = out.extracted, !.direct = out.direct]
        /\ UNCHANGED <<clock, mock_mode, llm_available, probe>>

\* SessionNotFound with the text of the other refusal.
SessionNotFoundAsInvalid == <<Lit("Invalid slot selection")>>

\* {"success": False, "message": "Session not found"}
SessionNotFound == <<Lit("Session not found")>>

\* InRange without the lower bound: a negative index passes.
InRangeNoLower(slot_index, slots) == slot_index < Len(slots)

\* 0 <= slot_index < len(slots)
InRange(slot_index, slots) == 0 <= slot_index /\ slot_index < Len(slots)

\* slots[slot_index]: a negative index counts from the end, and an index
\* outside -len(slots)..len(slots)-1 raises IndexError
HasItem(slots, slot_index) == 0 - Len(slots) <= slot_index /\ slot_index < Len(slots)
Item(slots, slot_index) ==
    slots[IF slot_index >= 0 THEN slot_index + 1 ELSE Len(slots) + slot_index + 1]

\* SessionOf answering with the session that holds the most offered slots.
SessionOfAny(store, session_id) ==
    store[CHOOSE s \in DOMAIN store :
            \A r \in DOMAIN store :
                Len(store[r].available_slots) <= Len(store[s].available_slots)]

\* state = self.sessions[session_id]
SessionOf(store, session_id) == store[session_id]

\* Confirmed leaving the session as it is.
ConfirmedNotMarked(state) == state

\* Confirmed taking the slots offered away once one of them is booked.
ConfirmedSlotsTaken(state) ==
    [state EXCEPT !.booking_confirmed = TRUE, !.available_slots = << >>]

\* state["booking_confirmed"] = True: all that confirm_booking writes
Confirmed(state) == [state EXCEPT !.booking_confirmed = TRUE]

confirm_booking(session_id, slot_index, api_fails) ==
    LET state == SessionOf(sessions, session_id)
        slots == state.available_slots
        selected_slot == Item(slots, slot_index)
        start_time == fromisoformat(selected_slot.start_time)
        end_time == fromisoformat(selected_slot.end_time)
        meeting_type == Get(state.extracted_info, "type", JStr(<<"M","e","e","t","i","n","g">>))
        event_title == capitalize(meeting_type.s) \o <<" ","-"," ">> \o strftime_time(start_time)
        booking_result == create_event(event_title, start_time, end_time, mock_mode, api_fails)
        answer == [NoReply EXCEPT !.op = "confirm", !.session_id = session_id,
                                  !.slot_index = slot_index]
    IN  IF session_id \notin DOMAIN sessions
        THEN /\ reply' = [answer EXCEPT !.branch = "confirm_no_session",
                                        !.message = SessionNotFound]
             /\ UNCHANGED <<sessions, created, calendar>>
        ELSE IF ~InRange(slot_index, slots)
        THEN /\ reply' = [answer EXCEPT !.branch = "confirm_invalid",
                                        !.message = <<Lit("Invalid slot selection")>>]
             /\ UNCHANGED <<sessions, created, calendar>>
        ELSE IF ~HasItem(slots, slot_index) \/ meeting_type.t # "str"
        THEN \* slots[slot_index] raises IndexError, meeting_type.capitalize() AttributeError
             /\ reply' = [answer EXCEPT !.branch = "raised", !.raised = TRUE]
             /\ UNCHANGED <<sessions, created, calendar>>
        ELSE IF booking_result.success
        THEN /\ sessions' = [sessions EXCEPT ![session_id] = Confirmed(@)]
             /\ created' = Append(created, Created(start_time, end_time, session_id,
                                                   "confirm", booking_result.stored,
                                                   api_fails))
             /\ calendar' = IF booking_result.stored
                            THEN calendar \cup {TimedEvent(start_time, end_time)}
                            ELSE calendar
             /\ reply' = [answer EXCEPT
                            !.branch = "confirm_ok", !.success = TRUE,
                            !.message = booking_result.message,
                            !.booking_details = <<[start_time |-> selected_slot.start_time,
                                                   end_time |-> selected_slot.end_time,
                                                   title |-> event_title]>>]
        ELSE /\ reply' = [answer EXCEPT
                            !.branch = "confirm_failed",
                            !.message = <<Lit("Failed to create calendar event. Please try again.")>>]
             /\ UNCHANGED <<sessions, created, calendar>>

----------------------------------------------------------------------------
(* Requests *)

\* the user messages stored over all sessions: one per process_message call
RECURSIVE ChatCount(_)
ChatCount(ids) ==
    IF ids = {} THEN 0
    ELSE LET s == CHOOSE x \in ids : TRUE
         IN  Len(SelectSeq(sessions[s].messages, LAMBDA m : m.role = "user"))
             + ChatCount(ids \ {s})

Tick ==
    /\ clock + TickMinutes <= StartClock + MaxTicks * TickMinutes
    /\ clock' = clock + TickMinutes
    /\ UNCHANGED <<mock_mode, llm_available, sessions, calendar, created, reply, query, probe, clients>>

Chat(messages, ids, intent_texts, second_texts) ==
    /\ ChatCount(DOMAIN sessions) < MaxChats
    /\ \E message \in messages, session_id \in ids, api_fails \in ApiOutcomes,
          nlu_intent \in NluOutcomes(intent_texts), nlu_second \in NluOutcomes(second_texts) :
            process_message(message, session_id, nlu_intent, nlu_second, api_fails)
    /\ Len(created') <= MaxEvents
    /\ UNCHANGED clients

Confirm(ids) ==
    /\ \E session_id \in ids, slot_index \in SlotIndexes, api_fails \in ApiOutcomes :
            confirm_booking(session_id, slot_index, api_fails)
    /\ Len(created') <= MaxEvents
    /\ UNCHANGED <<clock, mock_mode, llm_available, query, probe, clients>>

----------------------------------------------------------------------------
(* Probes: one text function applied to one message *)

ProbeWords ==
    {<<"B","o","o","k">>, <<"s","c","h","e","d","u","l","e">>, <<"m","e","e","t","i","n","g">>, <<"\"">>, <<"f","r","e","e">>, <<"t","o","d","a","y">>, <<"t","o","m","o","r","r","o","w">>, <<"m","o","n","d","a","y">>, <<"t","u","e","s","d","a","y">>,
     <<"w","e","d","n","e","s","d","a","y">>, <<"t","h","u","r","s","d","a","y">>, <<"f","r","i","d","a","y">>, <<"s","a","t","u","r","d","a","y">>, <<"s","u","n","d","a","y">>, <<"e","x","t","r","a","c","t"," ","b","o","o","k","i","n","g"," ","i","n","f","o","r","m","a","t","i","o","n">>}

RECURSIVE Join(_)
Join(words) ==
    IF Len(words) = 1 THEN words[1] ELSE words[1] \o <<" ">> \o Join(Tail(words))

ProbeMessages ==
    {Join(ws) : ws \in UNION {[1..n -> ProbeWords] : n \in 1..MaxWords}}
    \cup {MsgScheduleCall}

NoProbe == [stage |-> "none", message |-> << >>, nlu |-> NluUnavailable,
            intent |-> << >>, details |-> PyOther, date |-> 0,
            written |-> [hour |-> 0, minute |-> 0, ampm |-> << >>], booking |-> Trouble]

\* _understand_intent under the fallback path
ProbeIntent ==
    /\ probe.stage = "input"
    /\ \E nlu \in {NluUnavailable, NluRaises} :
        probe' = [probe EXCEPT !.stage = "intent", !.nlu = nlu,
                               !.intent = _understand_intent(probe.message, nlu)]
    /\ UNCHANGED <<clock, mock_mode, llm_available, sessions, calendar, created, reply, query, clients>>

\* _extract_details under the fallback path
ProbeDetails ==
    /\ probe.stage = "input"
    /\ \E nlu \in {NluUnavailable, NluRaises} :
        probe' = [probe EXCEPT !.stage = "details", !.nlu = nlu,
                               !.details = _extract_details(probe.message, nlu)]
    /\ UNCHANGED <<clock, mock_mode, llm_available, sessions, calendar, created, reply, query, clients>>

\* Answers of the text-completion service to the extraction prompt: JSON in
\* a fence, JSON with the leading fence only, a list, and texts json.loads
\* rejects (prose, prose in a fence, a fence alone, a cut object, a Python
\* dict literal).
FencedProse == <<"BQ","BQ","BQ","j","s","o","n","\n","I"," ","c","o","u","l","d"," ","n","o","t"," ","f","i",
      "n","d"," ","a","n","y"," ","d","e","t","a","i","l","s",".","\n","BQ","BQ","BQ">>
FenceAlone == <<"BQ","BQ","BQ">>
JsonOpenFence == <<"BQ","BQ","BQ","j","s","o","n","\n","{","\"","h","a","s","_","t","i","m","e","_","i","n","f","o","\"",":"," ","f","a","l","s","e","}">>
JsonCut == <<"{","\"","h","a","s","_","t","i","m","e","_","i","n","f","o","\"",":"," ","t","r","u","e",",",
      " ","\"","d","a","y","\"",":"," ","\"","t","o","m","o","r","r","o","w","\"">>
PythonDict == <<"{","'","h","a","s","_","t","i","m","e","_","i","n","f","o","'",":"," ","T","r","u","e","}">>
ParseTexts ==
    {Chatter, JsonGood, JsonArray, FencedProse, FenceAlone, JsonOpenFence, JsonCut, PythonDict}

\* _extract_details with a text-completion service that answers or raises
ProbeParse ==
    /\ probe.stage = "input"
    /\ \E nlu \in NluOutcomes(ParseTexts) :
        probe' = [probe EXCEPT !.stage = "details", !.nlu = nlu,
                               !.details = _extract_details(probe.message, nlu)]
    /\ UNCHANGED <<clock, mock_mode, llm_available, sessions, calendar, created, reply, query, clients>>

\* The day strings given to _parse_date: what the extraction fallbacks
\* return, and what a text-completion service may put in the day field.
DayStrings ==
    {<<"t","o","d","a","y">>, <<"t","o","m","o","r","r","o","w">>, <<"m","o","n","d","a","y">>, <<"M","o","n","d","a","y">>, <<"n","e","x","t"," ","m","o","n","d","a","y">>, <<"t","o","m","o","r","r","o","w"," ","o","r"," ","m","o","n","d","a","y">>, <<"F","r","i","d","a","y">>,
     <<"n","e","x","t"," ","w","e","e","k">>}

\* the hours of the day at which _parse_date is called
ProbeHours == {9, 21}

\* _parse_date applied to a day string at the time of the clock
ProbeDate ==
    /\ probe.stage = "input"
    /\ probe' = [probe EXCEPT !.stage = "date", !.date = _parse_date(probe.message, clock)]
    /\ UNCHANGED <<clock, mock_mode, llm_available, sessions, calendar, created, reply, query, clients>>

\* The time strings given to _direct_book_appointment: an hour, with or
\* without minutes and a space, and am or pm; the hours and minutes written
\* include ones no 12-hour clock shows.
HoursWritten == {1, 2, 3, 8, 9, 10, 11, 12, 13, 18}
MinutesWritten == {-1, 8, 30, 75}
NumberText(n) == IF n < 10 THEN <<DigitChars[n + 1]>> ELSE TwoDigits(n)
TimeText(hour, minute, space, ampm) ==
    NumberText(hour) \o (IF minute < 0 THEN << >> ELSE <<":">> \o TwoDigits(minute)) \o space \o ampm

\* the probes of _direct_book_appointment: the record extracted, with the
\* hour, the minute (-1: none) and the am or pm the time string was written from
BookProbes ==
    {[NoProbe EXCEPT
        !.stage = "input",
        !.message = TimeText(h, m, sp, ap),
        !.written = [hour |-> h, minute |-> m, ampm |-> ap],
        !.details = PyDict([EmptyDict EXCEPT !["has_time_info"] = JTrue,
                                             !["day"] = JStr(d),
                                             !["time"] = JStr(TimeText(h, m, sp, ap)),
                                             !["type"] = JStr(<<"c","a","l","l">>)])]
        : h \in HoursWritten, m \in MinutesWritten, sp \in {<< >>, <<" ">>},
          ap \in {<<"a","m">>, <<"p","m">>}, d \in {<<"t","o","d","a","y">>, <<"t","o","m","o","r","r","o","w">>}}

\* _direct_book_appointment applied to an extracted record
ProbeBook ==
    /\ probe.stage = "input"
    /\ \E api_fails \in ApiOutcomes :
       \E result \in {_direct_book_appointment(probe.details.dict, clock, mock_mode, api_fails)} :
        /\ probe' = [probe EXCEPT !.stage = "booked", !.booking = result]
        /\ created' = IF result.success
                      THEN Append(created, Created(result.start_time, result.end_time,
                                                   "default", "direct", result.stored,
                                                   api_fails))
                      ELSE created
        /\ calendar' = IF result.success /\ result.stored
                       THEN calendar \cup {TimedEvent(result.start_time, result.end_time)}
                       ELSE calendar
    /\ UNCHANGED <<clock, mock_mode, llm_available, sessions, reply, query, clients>>

----------------------------------------------------------------------------
(* Specifications *)

\* Two clients of the API that send no session_id, so that both talk to the
\* session "default" (main.py, ChatMessage).  Each keeps the slots of its
\* latest chat reply and asks for one of them by its index, as the frontend
\* does with its buttons; acting is the client of the last request.
Clients == {"c1", "c2"}
NoClients == [available_slots |-> [c \in Clients |-> << >>], acting |-> "none"]

\* POST /chat by client c; a reply without slots, or an error, leaves it none
ClientChat(c, messages) ==
    /\ ChatCount(DOMAIN sessions) < MaxChats
    /\ \E message \in messages, api_fails \in ApiOutcomes :
            process_message(message, "default", NluUnavailable, NluUnavailable, api_fails)
    /\ clients' = [available_slots |->
                        [clients.available_slots EXCEPT
                            ![c] = IF reply'.raised THEN << >> ELSE reply'.available_slots],
                   acting |-> c]
    /\ Len(created') <= MaxEvents

\* POST /confirm-booking by client c with the index of a slot it holds; the
\* client drops its slots once the booking succeeded
ClientConfirm(c) ==
    /\ \E slot_index \in 0..(Len(clients.available_slots[c]) - 1), api_fails \in ApiOutcomes :
            confirm_booking("default", slot_index, api_fails)
    /\ clients' = [available_slots |->
                        [clients.available_slots EXCEPT
                            ![c] = IF reply'.success THEN << >> ELSE @],
                   acting |-> c]
    /\ Len(created') <= MaxEvents
    /\ UNCHANGED <<clock, mock_mode, llm_available, query, probe>>

Start ==
    /\ clock = StartClock
    /\ sessions = [s \in {} |-> NewSession(s)]
    /\ created = << >>
    /\ reply = NoReply
    /\ query = NoQuery
    /\ clients = NoClients

\* The service as deployed without a text-completion service: every NLU
\* call takes the keyword fallback.  The calendar is simulated, or real with
\* an all-day event on day 1.
Init ==
    /\ Start
    /\ llm_available = FALSE
    /\ \E setup \in {<<TRUE, {}>>, <<FALSE, {AllDayEvent(1)}>>} :
            mock_mode = setup[1] /\ calendar = setup[2]
    /\ probe = NoProbe

Next ==
    \/ Tick
    \/ Chat(Messages, SessionIds, IntentTexts, SecondTexts)
    \/ Confirm(SessionIds)

Spec == Init /\ [][Next]_vars

\* The service with a text-completion service that answers or raises, one
\* session, the simulated calendar.
InitNlu ==
    /\ Start
    /\ llm_available = TRUE
    /\ mock_mode = TRUE
    /\ calendar = {}
    /\ probe = NoProbe

NextNlu ==
    \/ Tick
    \/ Chat(NluMessages, {"default"}, IntentTexts, SecondTexts)
    \/ Confirm({"default"})

SpecNlu == InitNlu /\ [][NextNlu]_vars

\* The text functions applied to messages of up to MaxWords words.
InitText ==
    /\ Start
    /\ llm_available = FALSE
    /\ mock_mode = TRUE
    /\ calendar = {}
    /\ probe \in {[NoProbe EXCEPT !.stage = "input", !.message = m] : m \in ProbeMessages}

NextText ==
    \/ ProbeIntent
    \/ ProbeDetails

SpecText == InitText /\ [][NextText]_vars

\* _extract_details applied to the same messages, the text-completion
\* service answering with one of ParseTexts or raising.
InitParse ==
    /\ Start
    /\ llm_available = TRUE
    /\ mock_mode = TRUE
    /\ calendar = {}
    /\ probe \in {[NoProbe EXCEPT !.stage = "input", !.message = m] : m \in ProbeMessages}

NextParse == ProbeParse

SpecParse == InitParse /\ [][NextParse]_vars

\* The service without a text-completion service and with the simulated
\* calendar, started at 09:00 of any day of a week and asked about weekdays.
InitWeek ==
    /\ clock \in {StartClock + d * MinutesPerDay : d \in 0..6}
    /\ sessions = [s \in {} |-> NewSession(s)]
    /\ created = << >>
    /\ reply = NoReply
    /\ query = NoQuery
    /\ clients = NoClients
    /\ llm_available = FALSE
    /\ mock_mode = TRUE
    /\ calendar = {}
    /\ probe = NoProbe

NextWeek ==
    \/ Chat(WeekMessages, {"default"}, IntentTexts, SecondTexts)
    \/ Confirm({"default"})

SpecWeek == InitWeek /\ [][NextWeek]_vars

\* _parse_date applied to the day strings on every day of a week.
InitDate ==
    /\ clock \in {d * MinutesPerDay + h * 60 : d \in 0..6, h \in ProbeHours}
    /\ sessions = [s \in {} |-> NewSession(s)]
    /\ created = << >>
    /\ reply = NoReply
    /\ query = NoQuery
    /\ clients = NoClients
    /\ llm_available = FALSE
    /\ mock_mode = TRUE
    /\ calendar = {}
    /\ probe \in {[NoProbe EXCEPT !.stage = "input", !.message = m] : m \in DayStrings}

NextDate == ProbeDate

SpecDate == InitDate /\ [][NextDate]_vars

\* _direct_book_appointment applied to the time strings at 09:00 of day 0,
\* for today and for tomorrow, the calendar simulated or real.
InitBook ==
    /\ Start
    /\ llm_available = FALSE
    /\ mock_mode \in BOOLEAN
    /\ calendar = {}
    /\ probe \in BookProbes

NextBook == ProbeBook

SpecBook == InitBook /\ [][NextBook]_vars

\* Two clients on the session "default", the calendar simulated, asking
\* about today, Monday and Friday.
InitClients ==
    /\ Start
    /\ llm_available = FALSE
    /\ mock_mode = TRUE
    /\ calendar = {}
    /\ probe = NoProbe

NextClients ==
    \/ Tick
    \/ \E c \in Clients : ClientChat(c, WeekMessages)
    \/ \E c \in Clients : ClientConfirm(c)

SpecClients == InitClients /\ [][NextClients]_vars

----------------------------------------------------------------------------
(* Properties *)

\* a reply text that holds at least one character
NonEmpty(response) ==
    \E k \in 1..Len(response) : response[k].lit # "" \/ response[k].txt # << >>

\* a slot and an event share some time
Overlaps(slot, event) == slot.start_time < event.end /\ slot.end_time > event.start

\* C1: no calendar event is ever created whose start time is at or before
\* the clock at the moment of its creation, by direct booking or by
\* confirm_booking of a slot offered earlier.
C1_NoEventStartsInThePast ==
    \A k \in 1..Len(created) : created[k].start > created[k].at

\* C2: confirm_booking with slot_index below 0 or at or beyond the length of
\* the session's offered slot list answers success = false, creates no event
\* and leaves the session as it was.
C2_OutOfBoundsConfirmChangesNothing ==
    [][(/\ reply'.op = "confirm"
        /\ reply'.session_id \in DOMAIN sessions
        /\ \/ reply'.slot_index < 0
           \/ reply'.slot_index >= Len(sessions[reply'.session_id].available_slots))
       => /\ reply'.success = FALSE
          /\ created' = created
          /\ calendar' = calendar
          /\ sessions' = sessions]_vars

\* an index beyond a non-empty offered list was refused
C2_Witness ==
    /\ reply.op = "confirm"
    /\ reply.branch = "confirm_invalid"
    /\ reply.session_id \in DOMAIN sessions
    /\ sessions[reply.session_id].available_slots # << >>
    /\ reply.slot_index >= Len(sessions[reply.session_id].available_slots)

\* C3: every slot get_available_slots returns starts strictly later than the
\* clock at the time of the call, for the simulated and the real backend.
C3_SlotsStartAfterTheCall ==
    query.asked => \A k \in 1..Len(query.found) : query.found[k].start_time > query.at

\* slots were asked for the day of the call during working hours, and the
\* slots returned leave out the start of the working day
C3_Witness ==
    /\ query.asked
    /\ DayOf(query.target_date) = DayOf(query.at)
    /\ query.at >= replace(query.target_date, WorkStart, 0)
    /\ query.found # << >>

\* C4: under the fallback path, a message that holds "book", "schedule" or
\* "meeting" anywhere in its text is classified book_appointment.
C4_SchedulingWordsGiveBookAppointment ==
    (/\ probe.stage = "intent"
     /\ AnyIn(probe.message, {<<"b","o","o","k">>, <<"s","c","h","e","d","u","l","e">>, <<"m","e","e","t","i","n","g">>}))
    => probe.intent = <<"b","o","o","k","_","a","p","p","o","i","n","t","m","e","n","t">>

\* the day tokens: the relative days and the weekday names
DayTokens ==
    {<<"t","o","d","a","y">>, <<"t","o","m","o","r","r","o","w">>, <<"m","o","n","d","a","y">>, <<"t","u","e","s","d","a","y">>, <<"w","e","d","n","e","s","d","a","y">>, <<"t","h","u","r","s","d","a","y">>, <<"f","r","i","d","a","y">>,
     <<"s","a","t","u","r","d","a","y">>, <<"s","u","n","d","a","y">>}

\* C5: under the fallback path, for a message that holds "today", "tomorrow"
\* or a weekday name, _extract_details returns a record with has_time_info
\* true and a day.
C5_DayTokensGiveDay ==
    (/\ probe.stage = "details"
     /\ AnyIn(probe.message, DayTokens))
    => /\ probe.details.kind = "dict"
       /\ Get(probe.details.dict, "has_time_info", JNull) = JTrue
       /\ Get(probe.details.dict, "day", JNull).t = "str"
       /\ Get(probe.details.dict, "day", JNull).s # << >>

\* C6: under the fallback path the message "I want to schedule a call for
\* tomorrow afternoon" is classified book_appointment, the extracted record
\* has has_time_info true, day tomorrow, time afternoon and type call, and
\* process_message returns a non-empty response.
C6_ScheduleCallEndToEnd ==
    (reply.op = "chat" /\ reply.message_in = MsgScheduleCall)
    => /\ ~reply.raised
       /\ reply.intent = <<"b","o","o","k","_","a","p","p","o","i","n","t","m","e","n","t">>
       /\ reply.extracted.ran
       /\ reply.extracted.value.kind = "dict"
       /\ Get(reply.extracted.value.dict, "has_time_info", JNull) = JTrue
       /\ Get(reply.extracted.value.dict, "day", JNull) = JStr(<<"t","o","m","o","r","r","o","w">>)
       /\ Get(reply.extracted.value.dict, "time", JNull) = JStr(<<"a","f","t","e","r","n","o","o","n">>)
       /\ Get(reply.extracted.value.dict, "type", JNull) = JStr(<<"c","a","l","l">>)
       /\ NonEmpty(reply.response)

\* the message was processed with the text-completion service unavailable
C6_Witness ==
    /\ reply.op = "chat"
    /\ reply.message_in = MsgScheduleCall
    /\ ~llm_available

\* a chat reply to a booking request that carries a day and a time
BookingRequest(r) ==
    /\ r.op = "chat"
    /\ ~r.raised
    /\ r.intent = <<"b","o","o","k","_","a","p","p","o","i","n","t","m","e","n","t">>
    /\ r.extracted.ran
    /\ r.extracted.value.kind = "dict"
    /\ Get(r.extracted.value.dict, "has_time_info", JNull) = JTrue
    /\ Get(r.extracted.value.dict, "day", JNull).t = "str"
    /\ Get(r.extracted.value.dict, "time", JNull).t = "str"

\* C7: the chat reply to a booking request that carries a day and a time
\* offers a non-empty slot list, and a confirm_booking that follows it on the
\* same session with an index inside that list succeeds with booking details.
C7_BookingRequestOffersSlotsToConfirm ==
    [][/\ BookingRequest(reply') => reply'.available_slots # << >>
       /\ (/\ BookingRequest(reply)
           /\ reply'.op = "confirm"
           /\ reply'.session_id = reply.session_id
           /\ 0 <= reply'.slot_index
           /\ reply'.slot_index < Len(reply.available_slots))
          => reply'.success /\ reply'.booking_details # << >>]_vars

\* C8: the intent _understand_intent returns, reported in the chat reply, is
\* one of book_appointment, check_availability and general_conversation.
C8_IntentIsOneOfThree ==
    reply.op = "chat"
    => reply.intent \in {<<"b","o","o","k","_","a","p","p","o","i","n","t","m","e","n","t">>, <<"c","h","e","c","k","_","a","v","a","i","l","a","b","i","l","i","t","y">>, <<"g","e","n","e","r","a","l","_","c","o","n","v","e","r","s","a","t","i","o","n">>}

\* C9: process_message raises for no outcome of the text-completion service
\* and of the calendar: it returns a reply with a response.
C9_ProcessMessageNeverRaises ==
    reply.op = "chat" => ~reply.raised /\ NonEmpty(reply.response)

\* C10: a slot get_available_slots returns overlaps no event created before
\* the call.
C10_SlotsAvoidCreatedEvents ==
    query.asked =>
        \A k \in 1..Len(query.found), j \in 1..query.events :
            ~Overlaps(query.found[k], created[j])

\* C11: the available_slots list of every session, and the slot list of every
\* chat reply, holds at most 3 entries, whichever backend produced the slots.
C11_AtMostThreeSlotsOffered ==
    /\ \A s \in DOMAIN sessions : Len(sessions[s].available_slots) <= 3
    /\ reply.op = "chat" => Len(reply.available_slots) <= 3

\* the backend returned more than 3 slots and the chat reply offers 3
C11_Witness ==
    /\ query.asked
    /\ Len(query.found) > 3
    /\ reply.op = "chat"
    /\ reply.branch = "availability"
    /\ Len(reply.available_slots) = 3
    /\ sessions[reply.session_id].available_slots = reply.available_slots

\* C12: after a process_message call in which _extract_details ran, the
\* extracted_info of the session and of the chat reply equal the record
\* extracted from the message, also when the booking was made directly and
\* when the record has has_time_info = false.
C12_ExtractedInfoIsTheRecordExtracted ==
    (/\ reply.op = "chat"
     /\ ~reply.raised
     /\ reply.extracted.ran
     /\ reply.extracted.value.kind = "dict")
    => /\ reply.extracted_info = reply.extracted.value.dict
       /\ sessions[reply.session_id].extracted_info = reply.extracted.value.dict

\* the response _extract_details received for the probed message
ProbedResponse ==
    _call_llm(ExtractPromptHead \o probe.message \o ExtractPromptTail, probe.nlu)

\* C13: when the response of the text-completion service, a leading json
\* fence and a trailing fence stripped, is not parseable as JSON,
\* _extract_details returns exactly _regex_extract(message).
C13_UnparseableResponseGivesRegexExtract ==
    (/\ probe.stage = "details"
     /\ ~json_loads(StripFences(ProbedResponse)).ok)
    => probe.details = PyDict(_regex_extract(probe.message))

\* the service answered prose inside a fence, and the record returned holds
\* the day the regex extraction reads from the message
C13_Witness ==
    /\ probe.stage = "details"
    /\ probe.nlu = NluText(FencedProse)
    /\ ~json_loads(StripFences(ProbedResponse)).ok
    /\ probe.details.kind = "dict"
    /\ probe.details.dict["day"] = JStr(<<"t","o","m","o","r","r","o","w">>)

\* the title of the event the last request created
CreatedTitle ==
    IF reply.op = "chat" THEN reply.direct.result.title ELSE reply.booking_details[1].title

\* the text the last request answered with
Answered == IF reply.op = "chat" THEN reply.response ELSE reply.message

\* C14: when the request of the calendar API raises, get_available_slots
\* returns the slots of the simulated backend for the same date, and
\* create_event returns the simulated event with success = true; neither
\* lets the failure through.
C14_ApiFailureGivesSimulatedResult ==
    /\ (query.asked /\ query.api_fails)
       => query.found = _get_mock_available_slots(query.target_date, Duration, query.at)
    /\ (/\ reply.branch \in {"direct_booked", "confirm_ok"}
        /\ created[Len(created)].api_fails)
       => /\ ~reply.raised
          /\ ~created[Len(created)].stored
          /\ Answered = create_event(CreatedTitle, created[Len(created)].start,
                                     created[Len(created)].end, TRUE, FALSE).message

\* the list request failed and simulated slots came back, then the insert
\* request failed on confirming one of them and the simulated event came back
C14_Witness ==
    /\ ~mock_mode
    /\ query.asked
    /\ query.api_fails
    /\ query.found # << >>
    /\ reply.branch = "confirm_ok"
    /\ reply.success
    /\ created[Len(created)].api_fails

\* C15: a session enters the store exactly when process_message is called
\* with an id the store does not hold, it starts with no messages, no
\* extracted_info, no slots and booking_confirmed = false (so after the call
\* it holds what this one call left), and no step removes a session or
\* starts it over: the messages of a session are only ever added to.
C15_SessionsAreCreatedOnceAndKept ==
    [][/\ DOMAIN sessions \subseteq DOMAIN sessions'
       /\ \A s \in DOMAIN sessions :
            /\ Len(sessions'[s].messages) >= Len(sessions[s].messages)
            /\ SubSeq(sessions'[s].messages, 1, Len(sessions[s].messages))
                    = sessions[s].messages
            /\ sessions[s].booking_confirmed => sessions'[s].booking_confirmed
       /\ \A s \in DOMAIN sessions' \ DOMAIN sessions :
            /\ reply'.op = "chat"
            /\ reply'.session_id = s
            /\ sessions'[s].session_id = s
            /\ sessions'[s].messages[1] = Message("user", <<Txt(reply'.message_in)>>)
            /\ Len(sessions'[s].messages) = (IF reply'.raised THEN 1 ELSE 2)
            /\ sessions'[s].booking_confirmed = (reply'.branch = "direct_booked")
            /\ reply'.branch \notin {"direct_failed", "availability"}
               => /\ sessions'[s].extracted_info = EmptyDict
                  /\ sessions'[s].available_slots = << >>
       /\ (reply'.op = "chat" /\ reply'.session_id \notin DOMAIN sessions)
          => reply'.session_id \in DOMAIN sessions']_vars

\* a second session was created by a message that books nothing and offers
\* nothing, next to a session that holds offered slots
C15_Witness ==
    /\ DOMAIN sessions = SessionIds
    /\ reply.op = "chat"
    /\ reply.branch = "conversation"
    /\ Len(sessions[reply.session_id].messages) = 2
    /\ ~sessions[reply.session_id].booking_confirmed
    /\ \E s \in DOMAIN sessions : sessions[s].available_slots # << >>

\* C16: confirm_booking with a session id the store does not hold answers
\* success = false with the message "Session not found", adds no session and
\* creates no event, whatever the slot_index.
C16_UnknownSessionIsRefused ==
    [][(/\ reply'.op = "confirm"
        /\ reply'.session_id \notin DOMAIN sessions)
       => /\ reply'.success = FALSE
          /\ ~reply'.raised
          /\ reply'.message = <<Lit("Session not found")>>
          /\ reply'.booking_details = << >>
          /\ sessions' = sessions
          /\ created' = created
          /\ calendar' = calendar]_vars

\* an index inside the slot list of another session was confirmed under an
\* id that was never used
C16_Witness ==
    /\ reply.op = "confirm"
    /\ reply.branch = "confirm_no_session"
    /\ reply.session_id \notin DOMAIN sessions
    /\ reply.slot_index = 0
    /\ \E s \in DOMAIN sessions : sessions[s].available_slots # << >>

\* the start hour the time-of-day words stand for
TimeOfDayHour(word) ==
    IF word = <<"a","f","t","e","r","n","o","o","n">> THEN 14 ELSE IF word = <<"m","o","r","n","i","n","g">> THEN 9 ELSE 18

\* C17: in direct booking an extracted time of "afternoon" gives a start at
\* 14:00 of the target date, "morning" at 09:00 and "evening" at 18:00, each
\* with an end one hour later.
C17_TimeOfDayWordsGiveFixedHours ==
    (/\ reply.op = "chat"
     /\ reply.direct.ran
     /\ reply.direct.result.outcome \in {"booked", "past"}
     /\ reply.extracted.value.dict["time"].t = "str"
     /\ lower(reply.extracted.value.dict["time"].s) \in {<<"a","f","t","e","r","n","o","o","n">>, <<"m","o","r","n","i","n","g">>, <<"e","v","e","n","i","n","g">>})
    => /\ HourOf(reply.direct.result.start_time)
            = TimeOfDayHour(lower(reply.extracted.value.dict["time"].s))
       /\ MinuteOf(reply.direct.result.start_time) = 0
       /\ reply.direct.result.end_time = reply.direct.result.start_time + 60

\* C18: whenever the reply to a slot-number message says that the selected
\* slot will be booked and that the meeting has been scheduled, an event for
\* that slot has been created and booking_confirmed of the session is true.
C18_ScheduledReplyMeansEventCreated ==
    (/\ reply.op = "chat"
     /\ reply.branch = "slot_selected")
    => /\ sessions[reply.session_id].booking_confirmed
       /\ \E k \in 1..Len(created), j \in 1..Len(reply.available_slots) :
            /\ reply.available_slots[j].display = reply.response[2].txt
            /\ created[k].session = reply.session_id
            /\ created[k].start = fromisoformat(reply.available_slots[j].start_time)

\* the calendar date `date` is the day the token names when today is `today`
Denotes(token, date, today) ==
    IF token = <<"t","o","d","a","y">> THEN date = today
    ELSE IF token = <<"t","o","m","o","r","r","o","w">> THEN date = today + 1
    ELSE /\ date >= today
         /\ \E w \in 1..7 : Weekdays[w] = token /\ date % 7 = w - 1

\* C19: when a chat reply names the day it checked, or offers slots after a
\* direct booking failed, every slot offered lies on the calendar date the
\* extracted day denotes: today, tomorrow, or the weekday named.
C19_OfferedSlotsLieOnTheDayAsked ==
    (/\ reply.op = "chat"
     /\ reply.branch \in {"availability", "direct_failed"}
     /\ reply.extracted.value.dict["day"].t = "str"
     /\ lower(reply.extracted.value.dict["day"].s) \in DayTokens)
    => \A k \in 1..Len(reply.available_slots) :
            Denotes(lower(reply.extracted.value.dict["day"].s),
                    reply.available_slots[k].start_time.date, DayOf(query.at))

\* the date _parse_date returned is a Monday, 1 to 7 days after the day of
\* the call, and 7 days after it when that day is a Monday
NextMonday ==
    /\ weekday(probe.date) = 0
    /\ DayOf(probe.date) - DayOf(clock) \in 1..7
    /\ weekday(clock) = 0 => DayOf(probe.date) - DayOf(clock) = 7

\* C20 as stated: for every day string that contains "monday", _parse_date
\* returns a Monday 1 to 7 days after today, 7 when today is a Monday.
C20_MondayStringGivesNextMonday ==
    (/\ probe.stage = "date"
     /\ Contains(lower(probe.message), <<"m","o","n","d","a","y">>))
    => NextMonday

\* C20, amended: for every day string that contains "monday" and neither
\* "today" nor "tomorrow", _parse_date returns a Monday 1 to 7 days after
\* today, 7 when today is a Monday, whatever the weekday of today.
C20_MondayAloneGivesNextMonday ==
    (/\ probe.stage = "date"
     /\ Contains(lower(probe.message), <<"m","o","n","d","a","y">>)
     /\ ~Contains(lower(probe.message), <<"t","o","d","a","y">>)
     /\ ~Contains(lower(probe.message), <<"t","o","m","o","r","r","o","w">>))
    => NextMonday

\* "next monday" was asked for on a Monday and the Monday a week later came back
C20_Witness ==
    /\ probe.stage = "date"
    /\ probe.message = <<"n","e","x","t"," ","m","o","n","d","a","y">>
    /\ weekday(clock) = 0
    /\ DayOf(probe.date) = DayOf(clock) + 7

\* the hour of the day a 12-hour clock time stands for
ClockHour(hour, ampm) ==
    IF ampm = <<"a","m">> THEN (IF hour = 12 THEN 0 ELSE hour)
    ELSE (IF hour = 12 THEN 12 ELSE hour + 12)

\* the time written is one a 12-hour clock shows
OnTheClock(written) ==
    written.hour \in 1..12 /\ (written.minute = -1 \/ written.minute \in 0..59)

\* C21: for every extracted time string, _direct_book_appointment either
\* creates an event at the hour and minute the 12-hour clock time stands for
\* (12am is 0, 1..11am are 1..11, 12pm is 12, 1..11pm are 13..23), or returns
\* success = false and creates no event; a time no clock shows, such as
\* "13pm", creates no event.
C21_ClockTimesAreConvertedOrRefused ==
    probe.stage = "booked"
    => /\ probe.booking.success = (created # << >>)
       /\ probe.booking.success
          => /\ OnTheClock(probe.written)
             /\ HourOf(probe.booking.start_time)
                    = ClockHour(probe.written.hour, probe.written.ampm)
             /\ MinuteOf(probe.booking.start_time)
                    = (IF probe.written.minute = -1 THEN 0 ELSE probe.written.minute)

\* the step is a process_message call: a message history grows
ChatStep ==
    \E s \in DOMAIN sessions' :
        s \notin DOMAIN sessions \/ Len(sessions'[s].messages) > Len(sessions[s].messages)

\* the step is a confirm_booking call
ConfirmStep == reply'.op = "confirm" /\ clock' = clock /\ ~ChatStep

C23_ConfirmingAgainBooksAgain ==
    [][/\ (ConfirmStep /\ reply'.success)
            => /\ sessions'[reply'.session_id].available_slots
                    = sessions[reply'.session_id].available_slots
               /\ Len(created') = Len(created) + 1
               /\ isoformat(created'[Len(created')].start)
                    = Item(sessions[reply'.session_id].available_slots,
                           reply'.slot_index).start_time
       /\ (/\ ConfirmStep
           /\ reply.op = "confirm"
           /\ reply.success
           /\ reply'.session_id = reply.session_id
           /\ reply'.slot_index = reply.slot_index)
            => /\ reply'.success
               /\ Len(created') = Len(created) + 1
               /\ created'[Len(created')].start = created[Len(created)].start
               /\ created'[Len(created')].end = created[Len(created)].end
               /\ created'[Len(created')].session = reply.session_id]_vars

\* one slot was confirmed twice: two events for one interval and one session
C23_Witness ==
    /\ reply.op = "confirm"
    /\ reply.success
    /\ Len(created) = 2
    /\ created[1].via = "confirm"
    /\ created[2].via = "confirm"
    /\ created[1].start = created[2].start
    /\ created[1].end = created[2].end
    /\ created[1].session = created[2].session

\* the events create_event reported as created for a session (simulated
\* ones included), by direct booking or by confirm_booking
EventsFor(session_id) == {i \in 1..Len(created) : created[i].session = session_id}

\* C24: in every reachable state a session's booking_confirmed flag is true
\* exactly when at least one event has been created for that session, no
\* event is held for an id without a session, and a flag that is true is
\* never reset.
C24_ConfirmedExactlyWhenAnEventWasCreated ==
    /\ [](/\ \A s \in DOMAIN sessions : sessions[s].booking_confirmed <=> EventsFor(s) # {}
          /\ \A i \in 1..Len(created) : created[i].session \in DOMAIN sessions)
    /\ [][\A s \in DOMAIN sessions :
            sessions[s].booking_confirmed
                => s \in DOMAIN sessions' /\ sessions'[s].booking_confirmed]_vars

\* a slot was confirmed in one session and the other session chatted after
\* that: one flag is set, with its event, and the other is not
C24_Witness ==
    /\ DOMAIN sessions = SessionIds
    /\ reply.op = "chat"
    /\ ~sessions[reply.session_id].booking_confirmed
    /\ EventsFor(reply.session_id) = {}
    /\ \E s \in DOMAIN sessions :
        /\ sessions[s].booking_confirmed
        /\ EventsFor(s) = {1}
        /\ created[1].via = "confirm"

\* the session a process_message call started from
SessionBefore(session_id) ==
    IF session_id \in DOMAIN sessions THEN sessions[session_id] ELSE NewSession(session_id)

\* the call just made took the general-conversation branch, or extracted a
\* record with has_time_info false under book_appointment or
\* check_availability
NothingToBook(answer) ==
    /\ answer.op = "chat"
    /\ ~answer.raised
    /\ \/ /\ ~Contains(answer.intent, <<"b","o","o","k","_","a","p","p","o","i","n","t","m","e","n","t">>)
          /\ ~Contains(answer.intent, <<"c","h","e","c","k","_","a","v","a","i","l","a","b","i","l","i","t","y">>)
       \/ /\ answer.extracted.ran
          /\ answer.extracted.value.kind = "dict"
          /\ ~Truthy(Get(answer.extracted.value.dict, "has_time_info", JNull))

\* C25: a process_message call that takes the general-conversation branch
\* (a slot-number selection included), or extracts has_time_info = false
\* under book_appointment or check_availability, creates no event and
\* changes nothing in the session but the message history, which gains the
\* user message and the assistant reply.
C25_NothingToBookChangesOnlyTheHistory ==
    [][(ChatStep /\ NothingToBook(reply'))
        => /\ created' = created
           /\ calendar' = calendar
           /\ sessions'[reply'.session_id]
                = [SessionBefore(reply'.session_id) EXCEPT
                    !.messages = @ \o <<Message("user", <<Txt(reply'.message_in)>>),
                                        Message("assistant", reply'.response)>>]]_vars

\* a request without a time, made in a session that holds offered slots and
\* an extracted record
C25_Witness ==
    /\ reply.branch = "book_no_time"
    /\ NothingToBook(reply)
    /\ Len(sessions[reply.session_id].messages) = 4
    /\ sessions[reply.session_id].available_slots # << >>
    /\ sessions[reply.session_id].extracted_info # EmptyDict
    /\ ~sessions[reply.session_id].booking_confirmed

\* C26: process_message and confirm_booking on one session leave every
\* other session as it is (messages, extracted_info, available_slots,
\* booking_confirmed), and confirm_booking books nothing but the slot at
\* slot_index of the slot list of its own session: an index outside that
\* list is refused whatever the other sessions hold.
C26_SessionsAreIsolated ==
    [][/\ \A s \in DOMAIN sessions :
            s # reply'.session_id => s \in DOMAIN sessions' /\ sessions'[s] = sessions[s]
       /\ \A s \in DOMAIN sessions' : s \in DOMAIN sessions \/ s = reply'.session_id
       /\ (ConfirmStep /\ reply'.session_id \in DOMAIN sessions)
            => IF InRange(reply'.slot_index, sessions[reply'.session_id].available_slots)
               THEN reply'.success
                    => /\ Len(created') = Len(created) + 1
                       /\ created'[Len(created')].session = reply'.session_id
                       /\ isoformat(created'[Len(created')].start)
                            = Item(sessions[reply'.session_id].available_slots,
                                   reply'.slot_index).start_time
                       /\ isoformat(created'[Len(created')].end)
                            = Item(sessions[reply'.session_id].available_slots,
                                   reply'.slot_index).end_time
               ELSE ~reply'.success /\ created' = created /\ calendar' = calendar]_vars

\* a session that was offered nothing asked for the first slot, which the
\* other session holds, and was refused
C26_Witness ==
    /\ reply.op = "confirm"
    /\ reply.branch = "confirm_invalid"
    /\ reply.slot_index = 0
    /\ reply.session_id \in DOMAIN sessions
    /\ sessions[reply.session_id].available_slots = << >>
    /\ sessions[reply.session_id].messages # << >>
    /\ created = << >>
    /\ \E s \in DOMAIN sessions :
        /\ s # reply.session_id
        /\ Len(sessions[s].available_slots) > 0
        /\ Len(sessions[s].messages) = 2

\* the roles of a message history alternate user, assistant, user, ...
Alternates(messages) ==
    \A i \in 1..Len(messages) :
        messages[i].role = (IF i % 2 = 1 THEN "user" ELSE "assistant")

\* C27: between requests, also after a request that ended in an error, each
\* session's message history has even length and alternates user,
\* assistant; a process_message that completed appended the user message
\* and the returned response, and confirm_booking appends nothing.
C27_HistoriesAlternateInPairs ==
    /\ [](\A s \in DOMAIN sessions :
            /\ Len(sessions[s].messages) % 2 = 0
            /\ Alternates(sessions[s].messages))
    /\ [][/\ (ChatStep /\ ~reply'.raised)
                => sessions'[reply'.session_id].messages
                    = SessionBefore(reply'.session_id).messages
                        \o <<Message("user", <<Txt(reply'.message_in)>>),
                             Message("assistant", reply'.response)>>
          /\ ~ChatStep => \A s \in DOMAIN sessions :
                            sessions'[s].messages = sessions[s].messages]_vars

\* C28: when two clients use the session "default" and their requests
\* interleave, a confirm_booking sent by a client with index i books the
\* slot at index i of the slot list of that client's latest chat reply.
C28_ConfirmBooksTheSlotTheClientWasShown ==
    [][(ConfirmStep /\ reply'.success)
        => /\ Len(created') = Len(created) + 1
           /\ isoformat(created'[Len(created')].start)
                = Item(clients.available_slots[clients'.acting], reply'.slot_index).start_time
           /\ isoformat(created'[Len(created')].end)
                = Item(clients.available_slots[clients'.acting], reply'.slot_index).end_time]_vars

\* C29: create_event reports success whatever the backend does, so
\* confirm_booking with a slot_index inside the session's slot list, and
\* direct booking of a time on a named day that is not in the past, always
\* report success, and "Failed to create calendar event. Please try again." is never
\* answered.
C29_BookingAlwaysReportsSuccess ==
    /\ [](/\ reply.branch # "confirm_failed"
          /\ reply.direct.ran => reply.direct.result.outcome # "failed")
    /\ [][/\ (/\ ConfirmStep
              /\ reply'.session_id \in DOMAIN sessions
              /\ InRange(reply'.slot_index, sessions[reply'.session_id].available_slots))
                => reply'.success /\ ~reply'.raised
          /\ (/\ ChatStep
              /\ reply'.direct.ran
              /\ Get(reply'.extracted.value.dict, "day", JNull).t = "str"
              /\ reply'.direct.result.outcome # "past")
                => reply'.direct.result.success]_vars

====
